---- MODULE Spec2Model ----
(***************************************************************************)
(* A model of the blixemel scene-graph serialiser: the typed value codec   *)
(* (export.py _get_prop_info, import.py parse_typed_value), the two-phase  *)
(* importer (import.py) and the shading-graph source resolver (export.py   *)
(* _find_source_image).                                                    *)
(*                                                                         *)
(* Python values are tagged tuples: <<"None">>, <<"str", text>>,           *)
(* <<"bool", b>>, <<"int", n>>, <<"float", h>> (h counts halves),          *)
(* <<"list", items>>, <<"Vector", hs>>, <<"Euler", hs, order>>,            *)
(* <<"Quaternion", hs>>, <<"Matrix", rows>>, <<"ID", kind, name>>.         *)
(* A text is the sequence of its comma-free fields: "1.0,2.0" is           *)
(* <<"1.0", "2.0">>, the empty text is <<"">>; <<>> is a missing attribute *)
(* (Python None).                                                          *)
(***************************************************************************)
EXTENDS Integers, Sequences, FiniteSets, TLC

VARIABLES
    cpc, cval, ctext, cres,                   \* the codec
    fpc, fsocket, fchain, fres, fret,         \* _find_source_image
    blend,              \* the registry saved in the .blend file that is exported
    doc,                \* the root element of the document written or imported
    ipc,                \* the statement importFromXML has reached
    bpy,                \* the host registry bpy.data
    HIERARCHY_MAP,      \* import.py line 7, with hmorder its key order
    hmorder,
    DEFERRED_LINKS,     \* import.py line 10
    DEFERRED_POSES,     \* import.py line 8
    DEFERRED_ACTIONS,   \* import.py line 9
    files,              \* the image files beside the document, by file name
    warned,             \* the names the WARNING lines of import.py 646 report
    looked              \* the size of the registry when the importer first
                        \* looked an entity up by name, -1 before

codecVars == <<cpc, cval, ctext, cres>>
findVars == <<fpc, fsocket, fchain, fres, fret>>
importVars == <<blend, doc, ipc, bpy, HIERARCHY_MAP, hmorder, DEFERRED_LINKS,
                DEFERRED_POSES, DEFERRED_ACTIONS, files, warned, looked>>

vars == <<cpc, cval, ctext, cres, fpc, fsocket, fchain, fres, fret,
          blend, doc, ipc, bpy, HIERARCHY_MAP, hmorder, DEFERRED_LINKS,
          DEFERRED_POSES, DEFERRED_ACTIONS, files, warned, looked>>

(***************************************************************************)
(* Bounds of the model.                                                    *)
(***************************************************************************)
\* largest magnitude of the numbers the codec is exercised with
MaxNum == 2
\* longest comma-joined value handed to the decoder
MaxParts == 17
\* number of nodes of a shading graph
MaxNodes == 3
\* most Object elements of a generated scene tree
MaxObjs == 3
\* most Prop elements of the Properties of the generated instance
MaxProps == 3
\* most Bone elements of the generated skeleton
MaxBones == 3
\* most instances of an exported scene
MaxInstances == 2
MaxImages == 2
\* most nodes of the node tree of the exported material
MaxTreeNodes == 3

(***************************************************************************)
(* Python values and texts.                                                *)
(***************************************************************************)
PyNone == <<"None">>
RAISE == <<"RAISE">>
NoText == <<>>
NoAttr == "<absent>"
\* the filepath attribute that is not there, among the paths
NoPath == <<NoAttr>>
Idle == <<"idle">>

PyStr(t) == <<"str", t>>
PyBool(b) == <<"bool", b>>
PyInt(n) == <<"int", n>>
PyFloat(h) == <<"float", h>>
PyList(items) == <<"list", items>>

Abs(n) == IF n < 0 THEN -n ELSE n

IntDomain == (-MaxNum)..MaxNum
FloatDomain == (-2 * MaxNum)..(2 * MaxNum)

\* str(int)
IntStr(n) == ToString(n)

\* str(float): repr of a float that is a multiple of one half
FloatStr(h) ==
    (IF h < 0 THEN "-" ELSE "") \o ToString(Abs(h) \div 2)
        \o (IF Abs(h) % 2 = 0 THEN ".0" ELSE ".5")

\* str(bool)
BoolStr(b) == IF b THEN "True" ELSE "False"

\* int(text): the integer a field denotes, RAISE (ValueError) otherwise
ParseInt(tok) ==
    IF \E n \in IntDomain : IntStr(n) = tok
    THEN PyInt(CHOOSE n \in IntDomain : IntStr(n) = tok)
    ELSE RAISE

\* float(text): accepts float and integer literals, RAISE otherwise
ParseFloat(tok) ==
    IF \E h \in FloatDomain : FloatStr(h) = tok
    THEN PyFloat(CHOOSE h \in FloatDomain : FloatStr(h) = tok)
    ELSE IF \E n \in IntDomain : IntStr(n) = tok
    THEN PyFloat(2 * (CHOOSE n \in IntDomain : IntStr(n) = tok))
    ELSE RAISE

\* str(v) of a scalar Python value
PyToStr(v) ==
    CASE v[1] = "int" -> IntStr(v[2])
      [] v[1] = "float" -> FloatStr(v[2])
      [] v[1] = "bool" -> BoolStr(v[2])
      [] v[1] = "None" -> "None"
      [] OTHER -> "?"

\* ",".join(fields)
Join(fields) == IF fields = <<>> THEN <<"">> ELSE fields

\* text.split(',')
Split(text) == text

\* [float(x) for x in parts]: the list, RAISE as soon as one field raises
MapParseFloat(parts) ==
    IF \E i \in 1..Len(parts) : ParseFloat(parts[i]) = RAISE
    THEN RAISE
    ELSE PyList([i \in 1..Len(parts) |-> ParseFloat(parts[i])])

\* [int(x) for x in parts]
MapParseInt(parts) ==
    IF \E i \in 1..Len(parts) : ParseInt(parts[i]) = RAISE
    THEN RAISE
    ELSE PyList([i \in 1..Len(parts) |-> ParseInt(parts[i])])

\* the numbers held by a sequence of int or float values
Payloads(items) == [i \in 1..Len(items) |-> items[i][2]]

(***************************************************************************)
(* mathutils constructors as parse_typed_value calls them.  Each returns   *)
(* the value or RAISE.                                                     *)
(***************************************************************************)
\* Vector(seq): any sequence of at least two floats
VectorCtor(lst) ==
    IF lst = RAISE THEN RAISE
    ELSE IF Len(lst[2]) < 2 THEN RAISE
    ELSE <<"Vector", Payloads(lst[2])>>

\* Euler(seq, 'XYZ'): exactly three angles
EulerCtor(lst, order) ==
    IF lst = RAISE THEN RAISE
    ELSE IF Len(lst[2]) # 3 THEN RAISE
    ELSE <<"Euler", Payloads(lst[2]), order>>

\* Quaternion(seq): four components, or three read as an exponential map
QuaternionCtor(lst) ==
    IF lst = RAISE THEN RAISE
    ELSE IF Len(lst[2]) = 4 THEN <<"Quaternion", Payloads(lst[2])>>
    ELSE IF Len(lst[2]) = 3 THEN <<"QuaternionExpMap", Payloads(lst[2])>>
    ELSE RAISE

\* Matrix(rows): two to four rows of one common length between two and four
MatrixCtor(rows) ==
    IF /\ Len(rows) \in 2..4
       /\ \A r \in 1..Len(rows) : Len(rows[r]) \in 2..4 /\ Len(rows[r]) = Len(rows[1])
    THEN <<"Matrix", rows>>
    ELSE RAISE

\* parts[lo:hi], Python slice with 0-based bounds clipped to the list
Slice(parts, lo, hi) ==
    IF lo >= Len(parts) THEN <<>>
    ELSE SubSeq(parts, lo + 1, IF hi < Len(parts) THEN hi ELSE Len(parts))

\* range(0, 16, 4) and the slice width of import.py line 52
MatrixCells == 16
MatrixCols == 4

\* substring tests on the type tag, over the tags the exporter writes
ArrayTags == {"FLOAT_ARRAY", "INT_ARRAY", "BOOLEAN_ARRAY"}
HasARRAY(type_str) == type_str \in ArrayTags
HasFLOAT(type_str) == type_str \in {"FLOAT", "FLOAT_ARRAY"}

FALLTHROUGH == <<"FALLTHROUGH">>

\* line 52: Matrix([parts[i:i+4] for i in range(0, 16, 4)])
MatrixOf(parts) ==
    IF parts = RAISE THEN RAISE
    ELSE MatrixCtor([r \in 1..(MatrixCells \div MatrixCols) |->
            Payloads(Slice(parts[2], MatrixCols * (r - 1), MatrixCols * r))])

\* the body of the try block of parse_typed_value: a value, RAISE when a
\* statement raises, FALLTHROUGH when no branch returns
ParseTryBody(value_str, type_str, struct_type) ==
    IF struct_type = "VECTOR"
    THEN VectorCtor(MapParseFloat(Split(value_str)))
    ELSE IF struct_type = "EULER"
    THEN EulerCtor(MapParseFloat(Split(value_str)), "XYZ")
    ELSE IF struct_type = "QUATERNION"
    THEN QuaternionCtor(MapParseFloat(Split(value_str)))
    ELSE IF struct_type = "MATRIX_4X4"
    THEN MatrixOf(MapParseFloat(Split(value_str)))
    ELSE IF type_str = "STRING" THEN PyStr(value_str)
    ELSE IF type_str = "BOOLEAN" THEN PyBool(value_str = <<"True">>)
    ELSE IF type_str = "INT"
    THEN (IF Len(value_str) = 1 THEN ParseInt(value_str[1]) ELSE RAISE)
    ELSE IF type_str = "FLOAT"
    THEN (IF Len(value_str) = 1 THEN ParseFloat(value_str[1]) ELSE RAISE)
    ELSE IF type_str = NoAttr THEN RAISE      \* 'ARRAY' in None: TypeError
    ELSE IF HasARRAY(type_str)
    THEN IF value_str = <<"">> THEN PyList(<<>>)
         ELSE IF HasFLOAT(type_str)
         THEN MapParseFloat(Split(value_str))
         ELSE MapParseInt(Split(value_str))
    ELSE FALLTHROUGH

\* line 68: "return value_str" when the try block returned nothing
ReturnOr(r, value_str) == IF r = FALLTHROUGH THEN PyStr(value_str) ELSE r

\* lines 66-68: "except: return None" around the try block whose outcome is r
ExceptNone(r, value_str) == IF r = RAISE THEN PyNone ELSE ReturnOr(r, value_str)

\* parse_typed_value without its try/except: an exception escapes
parse_typed_value_uncaught(value_str, type_str, struct_type) ==
    IF value_str = NoText \/ value_str = <<"None">> THEN PyNone
    ELSE ReturnOr(ParseTryBody(value_str, type_str, struct_type), value_str)

\* import.py parse_typed_value(value_str, type_str, struct_type)
parse_typed_value(value_str, type_str, struct_type) ==
    IF value_str = NoText \/ value_str = <<"None">> THEN PyNone
    ELSE ExceptNone(ParseTryBody(value_str, type_str, struct_type), value_str)

(***************************************************************************)
(* export.py _get_prop_info: the (value string, type, structure_type)      *)
(* triple of an attribute value val whose RNA definition has type ptype.   *)
(***************************************************************************)
AttrError == <<"AttributeError">>

FloatFields(hs) == [i \in 1..Len(hs) |-> FloatStr(hs[i])]

\* [col for row in val for col in row]
Flatten(rows) ==
    IF rows = <<>> THEN <<>>
    ELSE LET C == Len(rows[1])
         IN  [k \in 1..(Len(rows) * C) |->
                 rows[((k - 1) \div C) + 1][((k - 1) % C) + 1]]

\* str(val) as a text
StrText(val) == IF val[1] = "str" THEN val[2] ELSE <<PyToStr(val)>>

GetPropTryBody(val, ptype) ==
    IF val = AttrError THEN RAISE
    ELSE IF val[1] = "Vector" THEN <<Join(FloatFields(val[2])), ptype, "VECTOR">>
    ELSE IF val[1] = "Euler" THEN <<Join(FloatFields(val[2])), ptype, "EULER">>
    ELSE IF val[1] = "Quaternion" THEN <<Join(FloatFields(val[2])), ptype, "QUATERNION">>
    ELSE IF val[1] = "Matrix"
    THEN <<Join(FloatFields(Flatten(val[2]))), ptype,
           IF Len(val[2]) = 4 THEN "MATRIX_4X4" ELSE "MATRIX">>
    ELSE IF ptype = "POINTER"
    THEN <<IF val[1] = "ID" THEN <<val[3]>> ELSE <<"None">>, ptype, "">>
    ELSE IF ptype \in ArrayTags
    THEN <<IF val[1] = "list"
           THEN Join([i \in 1..Len(val[2]) |-> PyToStr(val[2][i])])
           ELSE StrText(val), ptype, "">>
    ELSE <<StrText(val), ptype, "">>

get_prop_info(val, ptype) ==
    LET r == GetPropTryBody(val, ptype)
    IN  IF r = RAISE THEN <<<<"">>, "UNKNOWN", "">> ELSE r

(***************************************************************************)
(* The codec exercised: either a valid attribute value is encoded and the  *)
(* triple decoded again, or an arbitrary triple read from a document is    *)
(* decoded.                                                                *)
(***************************************************************************)
FloatSamples == {-MaxNum, 0, 1}

Vec3s == [1..3 -> FloatSamples]
Vec4s == [1..4 -> FloatSamples]
Mat4s == {[r \in 1..4 |-> [c \in 1..4 |-> IF r = c THEN d ELSE IF c = 4 THEN t ELSE 0]] :
             d \in FloatSamples, t \in FloatSamples}

ScalarLists(S) ==
    {<<>>} \cup {<<a>> : a \in S} \cup {<<a, b>> : a \in S, b \in S}

\* the (value, RNA type) pairs of valid attributes
ValidValues ==
    {<<PyStr(t), "STRING">> : t \in {<<"abc">>, <<"">>, <<"a", "b">>, <<"None">>}}
    \cup {<<PyBool(b), "BOOLEAN">> : b \in BOOLEAN}
    \cup {<<PyInt(n), "INT">> : n \in IntDomain}
    \cup {<<PyFloat(h), "FLOAT">> : h \in FloatDomain}
    \cup {<<PyList(l), "FLOAT_ARRAY">> : l \in ScalarLists({PyFloat(h) : h \in FloatSamples})}
    \cup {<<PyList(l), "INT_ARRAY">> : l \in ScalarLists({PyInt(n) : n \in IntDomain})}
    \cup {<<PyList(l), "BOOLEAN_ARRAY">> : l \in ScalarLists({PyBool(b) : b \in BOOLEAN})}
    \cup {<<<<"ID", "Object", n>>, "POINTER">> : n \in {"Cube", "Lamp"}}
    \cup {<<PyNone, "POINTER">>}
    \cup {<<PyStr(<<e>>), "ENUM">> : e \in {"XYZ", "QUATERNION"}}
    \cup {<<<<"Vector", v>>, "FLOAT_ARRAY">> : v \in Vec3s}
    \cup {<<<<"Euler", v, "XYZ">>, "FLOAT_ARRAY">> : v \in Vec3s}
    \cup {<<<<"Quaternion", q>>, "FLOAT_ARRAY">> : q \in Vec4s}
    \cup {<<<<"Matrix", m>>, "FLOAT_ARRAY">> : m \in Mat4s}

Fills == {"1.0", "0.5", "2", "abc", "", "True", "None"}

\* value strings of one to MaxParts fields, well formed and malformed
RawTexts ==
    {[i \in 1..n |-> f] : n \in 1..MaxParts, f \in Fills}
    \cup {[i \in 1..n |-> IF i = n THEN "abc" ELSE "1.0"] : n \in 2..MaxParts}

TypeTags == {"STRING", "BOOLEAN", "INT", "FLOAT", "FLOAT_ARRAY", "INT_ARRAY",
             "BOOLEAN_ARRAY", "POINTER", "ENUM"}
StructTags == {"VECTOR", "EULER", "QUATERNION", "MATRIX_4X4"}

RawTriples ==
    (RawTexts \cup {NoText})
        \X (TypeTags \cup {"UNKNOWN", NoAttr})
        \X (StructTags \cup {"", "MATRIX"})

CodecIdle == cpc = "idle" /\ cval = Idle /\ ctext = Idle /\ cres = Idle

FindIdle ==
    /\ fpc = "idle" /\ fsocket = <<"none">> /\ fchain = <<>>
    /\ fres = "pending" /\ fret = "none"

ImportIdle ==
    /\ blend = <<>> /\ doc = <<>> /\ ipc = "idle" /\ bpy = <<>> /\ HIERARCHY_MAP = <<>>
    /\ hmorder = <<>> /\ DEFERRED_LINKS = <<>> /\ DEFERRED_POSES = <<>>
    /\ DEFERRED_ACTIONS = <<>> /\ files = <<>> /\ warned = <<>> /\ looked = -1

InitCodec ==
    /\ FindIdle
    /\ ImportIdle
    /\ cres = Idle
    /\ \/ cpc = "encode" /\ cval \in ValidValues /\ ctext = Idle
       \/ cpc = "decode" /\ cval = Idle /\ ctext \in RawTriples

\* the exporter writes one attribute: _get_prop_info
GetPropInfo ==
    /\ cpc = "encode"
    /\ ctext' = get_prop_info(cval[1], cval[2])
    /\ cpc' = "decode"
    /\ UNCHANGED <<cval, cres>>
    /\ UNCHANGED <<findVars, importVars>>

\* the importer reads one Prop: parse_typed_value
ParseTypedValue ==
    /\ cpc = "decode"
    /\ cres' = parse_typed_value(ctext[1], ctext[2], ctext[3])
    /\ cpc' = "decoded"
    /\ UNCHANGED <<cval, ctext>>
    /\ UNCHANGED <<findVars, importVars>>

NextCodec == GetPropInfo \/ ParseTypedValue

SpecCodec == InitCodec /\ [][NextCodec]_vars

\* what the importer has to get back for v: the value itself, a reference
\* being carried by the name of the entity
Decoded(v) == IF v[1] = "ID" THEN PyStr(<<v[3]>>) ELSE v

\* C1: decoding the triple that _get_prop_info produced for a valid value
\* of any supported type yields the value again.
C1_RoundTrip ==
    (cpc = "decoded" /\ cval # Idle) => cres = Decoded(cval[1])

\* C9: parse_typed_value returns a value or None for every combination of
\* value string, type tag and structure_type; no exception escapes.
C9_DecodeTotal ==
    cpc = "decoded" => cres # RAISE

C9_Witness ==
    /\ cpc = "decoded" /\ cval = Idle
    /\ ParseTryBody(ctext[1], ctext[2], ctext[3]) = RAISE
    /\ ctext[2] = NoAttr
    /\ cres = PyNone

StructLen(struct_type) ==
    CASE struct_type = "VECTOR" -> 3
      [] struct_type = "EULER" -> 3
      [] struct_type = "QUATERNION" -> 4
      [] struct_type = "MATRIX_4X4" -> MatrixCells

\* C10: a structural value whose text holds another number of components
\* than its subtype fixes (3, 3, 4, 16) decodes to None.
C10_RejectsLength ==
    (/\ cpc = "decoded"
     /\ ctext[3] \in StructTags
     /\ ctext[1] # NoText
     /\ Len(ctext[1]) # StructLen(ctext[3]))
        => cres = PyNone

(***************************************************************************)
(* export.py _find_source_image: the walk from an input socket back to the *)
(* image that feeds it.  One step is one call of the recursion.  The graph *)
(* has the nodes 1..MaxNodes; a node is read (its type, image and input    *)
(* sockets) when the walk reaches it, and fchain keeps what was read in    *)
(* visiting order.  A socket is <<"none">> (no socket), <<"unlinked">> or  *)
(* <<"from", n>>: linked from an output of node n.                         *)
(***************************************************************************)
Nodes == 1..MaxNodes

Unlinked == <<"unlinked">>
LinkFrom(n) == <<"from", n>>
Sockets == {Unlinked} \cup {LinkFrom(n) : n \in Nodes}

AdjustTypes == {"NORMAL_MAP", "BUMP", "MAPPING", "CURVE_RGB", "VALTORGB", "HUE_SAT"}
MixTypes == {"MIX_RGB", "MIX_SHADER", "ADD_SHADER"}
SeparateTypes == {"SEPARATE_COLOR", "SEPARATE_RGB", "SEPARATE_XYZ"}

\* the names of the input sockets of the node types of the model
InputNames(type) ==
    CASE type = "TEX_IMAGE" -> <<"Vector">>
      [] type = "REROUTE" -> <<"Input">>
      [] type = "HUE_SAT" -> <<"Fac", "Color">>
      [] type = "VALTORGB" -> <<"Fac">>
      [] type = "MIX_RGB" -> <<"Fac", "Color1", "Color2">>
      [] type = "ADD_SHADER" -> <<"Shader", "Shader">>
      [] type = "SEPARATE_COLOR" -> <<"Color">>
      [] type = "BSDF_PRINCIPLED" -> <<"Base Color">>

NodeTypes == {"TEX_IMAGE", "REROUTE", "HUE_SAT", "VALTORGB", "MIX_RGB",
              "ADD_SHADER", "SEPARATE_COLOR", "BSDF_PRINCIPLED"}

\* the nodes a graph can hold: a type, the bound image of an image sampler,
\* and a link or none on every input socket (factor inputs are constants)
NodeRecords ==
    UNION {{[type |-> t, image |-> im, inputs |-> ins] :
              im \in (IF t = "TEX_IMAGE" THEN {"None", "img"} ELSE {"None"}),
              ins \in {f \in [1..Len(InputNames(t)) -> Sockets] :
                         \A i \in 1..Len(InputNames(t)) :
                            InputNames(t)[i] = "Fac" => f[i] = Unlinked}} :
           t \in NodeTypes}

HasInput(node, name) == \E i \in 1..Len(node.inputs) : InputNames(node.type)[i] = name
InputIndex(node, name) == CHOOSE i \in 1..Len(node.inputs) : InputNames(node.type)[i] = name

\* lines 189-206: the input socket the walk continues through, <<"none">>
\* when the node is no pass-through node or offers no socket
NextSocket(node) ==
    IF node.type = "REROUTE" THEN node.inputs[1]
    ELSE IF node.type \in AdjustTypes
    THEN IF HasInput(node, "Color") THEN node.inputs[InputIndex(node, "Color")]
         ELSE IF HasInput(node, "Factor") THEN node.inputs[InputIndex(node, "Factor")]
         ELSE IF Len(node.inputs) > 0 THEN node.inputs[1]
         ELSE <<"none">>
    ELSE IF node.type \in MixTypes
    THEN IF Len(node.inputs) > 2 /\ node.inputs[3] # Unlinked THEN node.inputs[3]
         ELSE IF Len(node.inputs) > 1 /\ node.inputs[2] # Unlinked THEN node.inputs[2]
         ELSE <<"none">>
    ELSE IF node.type \in SeparateTypes
    THEN IF Len(node.inputs) > 0 THEN node.inputs[1] ELSE <<"none">>
    ELSE <<"none">>

Visited == {fchain[i].node : i \in 1..Len(fchain)}

\* line 182 without the visited set: every node counts as new
InVisitedNever(n, visited) == FALSE

\* line 182: node in visited
InVisited(n, visited) == n \in visited

InitFind ==
    /\ CodecIdle
    /\ ImportIdle
    /\ fpc = "call"
    /\ fsocket \in Sockets \cup {<<"none">>}
    /\ fchain = <<>>
    /\ fres = "pending"
    /\ fret = "none"

Return(value, line) ==
    /\ fres' = value
    /\ fret' = line
    /\ fpc' = "done"

\* one call _find_source_image(socket, visited)
FindSourceImage ==
    /\ fpc = "call"
    /\ Len(fchain) <= MaxNodes            \* caps the walk of a graph without end
    /\ UNCHANGED <<codecVars, importVars>>
    /\ IF fsocket = <<"none">> \/ fsocket = Unlinked
       THEN Return("None", "L176") /\ UNCHANGED <<fsocket, fchain>>
       ELSE LET n == fsocket[2]
            IN  IF InVisited(n, Visited)
                THEN Return("None", "L183") /\ UNCHANGED <<fsocket, fchain>>
                ELSE \E node \in NodeRecords :
                       /\ fchain' = Append(fchain, [node |-> n, type |-> node.type])
                       /\ IF node.type = "TEX_IMAGE"
                          THEN Return(node.image, "L187") /\ UNCHANGED fsocket
                          ELSE IF NextSocket(node) # <<"none">>
                          THEN /\ fsocket' = NextSocket(node)
                               /\ UNCHANGED <<fpc, fres, fret>>
                          ELSE Return("None", "L210") /\ UNCHANGED fsocket

NextFind == FindSourceImage

\* the exporter's loop is sequential and nothing suspends a call
SpecFind == InitFind /\ [][NextFind]_vars /\ WF_vars(FindSourceImage)

PassThrough == {"REROUTE"} \cup AdjustTypes \cup MixTypes \cup SeparateTypes

\* C8: from any input socket the walk ends, it visits at most as many nodes
\* as the graph has, and when it comes back to a node it has visited, no
\* image sampler being on the way, it returns no source.
C8_CycleSafe ==
    /\ [](Len(fchain) <= MaxNodes)
    /\ []((fpc = "done" /\ fret = "L183") => fres = "None")
    /\ <>(fpc = "done")

C8_Witness ==
    /\ fpc = "done" /\ fret = "L183" /\ fres = "None"
    /\ Len(fchain) = MaxNodes
    /\ \A i \in 1..Len(fchain) : fchain[i].type = "REROUTE"

(***************************************************************************)
(* The document: an ElementTree element is [tag, a, ch]: its tag, its      *)
(* attributes (NoAttr for an attribute that is not there; value is a text, *)
(* NoText when it is not there; filepath is the sequence of the components *)
(* of a relative path) and its children in document order.                 *)
(***************************************************************************)
NoAttrs == [name |-> NoAttr, data_name |-> NoAttr, parent_name |-> NoAttr,
            type |-> NoAttr, value |-> NoText, structure_type |-> NoAttr,
            active_action |-> NoAttr, filepath |-> NoPath]

Elem(tag, a, ch) == [tag |-> tag, a |-> a, ch |-> ch]

\* the None that find() returns
NoElem == Elem("<none>", NoAttrs, <<>>)

\* element.get(key, default)
GetAttr(e, key, default) == IF e.a[key] = NoAttr THEN default ELSE e.a[key]

\* element.find(tag): the first child with the tag, or None
Find(e, tag) ==
    IF \E i \in 1..Len(e.ch) : e.ch[i].tag = tag
    THEN e.ch[CHOOSE i \in 1..Len(e.ch) :
                 e.ch[i].tag = tag /\ \A j \in 1..(i - 1) : e.ch[j].tag # tag]
    ELSE NoElem

IsTag(e, tag) == e.tag = tag

\* element.findall(tag): the children with the tag, in document order
RECURSIVE FindAll(_, _)
FindAll(e, tag) ==
    IF e.ch = <<>> THEN <<>>
    ELSE LET rest == FindAll([e EXCEPT !.ch = Tail(e.ch)], tag)
         IN  IF Head(e.ch).tag = tag THEN <<Head(e.ch)>> \o rest ELSE rest

\* truth value of an element: an element without children is false
ElemTrue(e) == e # NoElem /\ e.ch # <<>>

\* truth value of a Python value
Truthy(v) ==
    CASE v[1] = "None" -> FALSE
      [] v[1] = "str" -> v[2] # <<"">>
      [] v[1] = "bool" -> v[2]
      [] v[1] = "int" -> v[2] # 0
      [] v[1] = "float" -> v[2] # 0
      [] v[1] = "list" -> v[2] # <<>>
      [] OTHER -> TRUE

\* the Python string of an attribute text (a name holds no comma)
TextStr(t) == IF Len(t) = 1 THEN t[1] ELSE "<text>"

(***************************************************************************)
(* The host registry bpy.data: one sequence per kind, in creation order.   *)
(* An entity is named by its handle <<kind, index>>.                       *)
(***************************************************************************)
NoneH == <<"None", 0>>
H(kind, i) == <<kind, i>>

Unset == <<"unset">>

\* the attributes the model follows
AttrNames == {"location", "rotation_euler", "rotation_quaternion", "scale",
              "matrix_world", "rotation_mode", "parent_type", "parent_bone",
              "matrix_parent_inverse", "hide_render", "object", "active_material",
              "filepath"}

NoAttrsSet == [n \in AttrNames |-> Unset]

Kinds == {"Object", "Mesh", "Material", "Light", "Camera", "Armature", "Action",
          "Image", "Modifier", "Scene", "PoseBone"}

\* the attributes an entity of a kind has and lets a script write
Writable(kind) ==
    CASE kind = "Object" -> AttrNames \ {"object"}
      [] kind = "PoseBone" -> {"location", "rotation_euler", "rotation_quaternion",
                               "scale", "rotation_mode"}
      [] kind = "Modifier" -> {"object"}
      [] kind = "Image" -> {"filepath"}
      [] OTHER -> {}

\* the kind of entity a pointer attribute accepts
PointerKind(name) ==
    CASE name = "object" -> "Object"
      [] name = "active_material" -> "Material"
      [] OTHER -> "None"

\* the number of components of a sequence value, -1 for any other value
SeqLen(val) ==
    IF val[1] \in {"Vector", "Euler", "Quaternion", "list"} THEN Len(val[2])
    ELSE IF val[1] = "QuaternionExpMap" THEN 4
    ELSE -1

RotationModes == {"QUATERNION", "XYZ", "XZY", "YXZ", "YZX", "ZXY", "ZYX", "AXIS_ANGLE"}
ParentTypes == {"OBJECT", "ARMATURE", "LATTICE", "VERTEX", "VERTEX_3", "BONE"}

IsEnum(val, items) == val[1] = "str" /\ Len(val[2]) = 1 /\ val[2][1] \in items

\* the values an attribute takes
ValueFits(name, val) ==
    CASE name \in {"location", "scale", "rotation_euler"} -> SeqLen(val) = 3
      [] name = "rotation_quaternion" -> SeqLen(val) = 4
      [] name \in {"matrix_world", "matrix_parent_inverse"} -> val[1] = "Matrix"
      [] name = "rotation_mode" -> IsEnum(val, RotationModes)
      [] name = "parent_type" -> IsEnum(val, ParentTypes)
      [] name \in {"parent_bone", "filepath"} -> val[1] = "str"
      [] name = "hide_render" -> val[1] \in {"bool", "int"}
      [] PointerKind(name) # "None" -> val = NoneH \/ val[1] = PointerKind(name)
      [] OTHER -> FALSE

\* setattr(entity, name, val) succeeds: the entity has the attribute and
\* takes the value; otherwise it raises
Settable(kind, name, val) ==
    name \in Writable(kind) /\ ValueFits(name, val)

EmptyBpy == [objects |-> <<>>, meshes |-> <<>>, materials |-> <<>>, lights |-> <<>>,
             cameras |-> <<>>, armatures |-> <<>>, actions |-> <<>>, images |-> <<>>,
             modifiers |-> <<>>, scenes |-> <<>>, posebones |-> <<>>,
             collections |-> {"Scene Collection"}, created |-> <<>>, steps |-> <<>>]

\* the bpy.data collection that holds the entities of a kind
CollOf(kind) ==
    CASE kind = "Object" -> "objects"
      [] kind = "Mesh" -> "meshes"
      [] kind = "Material" -> "materials"
      [] kind = "Light" -> "lights"
      [] kind = "Camera" -> "cameras"
      [] kind = "Armature" -> "armatures"
      [] kind = "Action" -> "actions"
      [] kind = "Image" -> "images"
      [] kind = "Modifier" -> "modifiers"
      [] kind = "Scene" -> "scenes"
      [] kind = "PoseBone" -> "posebones"

NamesIn(coll) == {coll[i].name : i \in 1..Len(coll)}

\* coll.get(name): the handle of the entity of that name, or None
GetByName(b, kind, name) ==
    LET coll == b[CollOf(kind)]
    IN  IF \E i \in 1..Len(coll) : coll[i].name = name
        THEN H(kind, CHOOSE i \in 1..Len(coll) : coll[i].name = name)
        ELSE NoneH

\* the host keeps names unique within a collection: name, name.001, ...
RECURSIVE UniqueFrom(_, _, _)
UniqueFrom(name, used, k) ==
    LET cand == name \o ".00" \o ToString(k)
    IN  IF cand \notin used THEN cand ELSE UniqueFrom(name, used, k + 1)

UniqueName(name, used) == IF name \notin used THEN name ELSE UniqueFrom(name, used, 1)

\* mat.node_tree of a material that uses no nodes: None
NoTree == [present |-> FALSE, nodes |-> <<>>, links |-> <<>>]

\* a new data block or object record
NewID(name, type, data) ==
    [name |-> name, type |-> type, data |-> data, parent |-> NoneH, cols |-> {},
     attrs |-> NoAttrsSet, bones |-> <<>>, action |-> NoneH, node_tree |-> NoTree]

\* coll.new(name): the registry with the new entity appended; created is
\* the order in which the entities of all kinds were made
AddID(b, kind, name, type, data) ==
    LET coll == b[CollOf(kind)]
    IN  [b EXCEPT ![CollOf(kind)] =
            Append(coll, NewID(UniqueName(name, NamesIn(coll)), type, data)),
                  !.created = Append(@, H(kind, Len(coll) + 1))]

\* steps is the order in which the importer's second and third phases
\* reached the entities: the parent and the transforms of an object in
\* resolve_hierarchy, a link in resolve_links, a pose bone in
\* apply_deferred_poses, the action of an object in apply_deferred_actions
Step(st, what, h) == [st EXCEPT !.b.steps = Append(@, <<what, h>>)]

LastH(b, kind) == H(kind, Len(b[CollOf(kind)]))

Ent(b, h) == b[CollOf(h[1])][h[2]]

\* the name of an entity, "<none>" for None
NameOf(b, h) == IF h = NoneH THEN "<none>" ELSE Ent(b, h).name

\* try: setattr(entity, name, val) except: pass
TrySetAttr(b, h, name, val) ==
    IF Settable(h[1], name, val)
    THEN [b EXCEPT ![CollOf(h[1])][h[2]].attrs[name] = val]
    ELSE b

(***************************************************************************)
(* The importer's globals (import.py lines 7-10), carried through the      *)
(* import functions as one record st together with the registry:           *)
(*   b: bpy.data, hm: HIERARCHY_MAP, links: DEFERRED_LINKS,                *)
(*   poses: DEFERRED_POSES, acts: DEFERRED_ACTIONS,                        *)
(*   raised: an exception has left the function; files, warned and looked *)
(*   are the variables of those names.                                     *)
(***************************************************************************)
\* no file beside the document
NoFiles == [f \in {} |-> "none"]

\* the dict that lines 76-84, 298-306 and 533-541 store for an entity
FreshRecord == [parent |-> PyNone, type |-> PyNone, bone |-> PyNone, inv |-> PyNone,
                world_matrix |-> PyNone, transforms |-> <<>>, rotation_mode |-> PyNone,
                head |-> PyNone, tail |-> PyNone, object |-> NoneH]

\* the dict {'object': arm_obj} of line 307
ObjectRecord(obj) == [FreshRecord EXCEPT !.object = obj]

\* dict[key] = value
Put(map, key, value) == [k \in (DOMAIN map) \cup {key} |-> IF k = key THEN value ELSE map[k]]

EmptyMap == [k \in {} |-> FreshRecord]

\* HIERARCHY_MAP[key] = value; st.order keeps the keys in insertion order
PutRecord(st, key, value) ==
    [st EXCEPT !.hm = Put(st.hm, key, value),
               !.order = IF key \in DOMAIN st.hm THEN @ ELSE Append(@, key)]

SkippedProps == {"name", "type", "is_readonly", "data",
                 "matrix_basis", "matrix_local", "matrix_custom"}
LocalProps == {"location", "rotation_euler", "rotation_quaternion", "scale"}

\* lines 113-115: a local component is stored while no world matrix is recorded
StoreLocal(data, name, val) ==
    IF data.world_matrix = PyNone
    THEN [data EXCEPT !.transforms = Append(@, <<name, val>>)]
    ELSE data

\* lines 96-107 and 111-115: the dict of the entity after the value val of
\* the property name is recorded in it
Recorded(data, name, val) ==
    CASE name = "parent" -> [data EXCEPT !.parent = val]
      [] name = "parent_type" -> [data EXCEPT !.type = val]
      [] name = "parent_bone" -> [data EXCEPT !.bone = val]
      [] name = "head" -> [data EXCEPT !.head = val]
      [] name = "tail" -> [data EXCEPT !.tail = val]
      [] name = "matrix_parent_inverse" -> [data EXCEPT !.inv = val]
      [] name = "matrix_world" -> [data EXCEPT !.world_matrix = val]
      [] name = "rotation_mode" -> [data EXCEPT !.rotation_mode = val]
      [] name \in LocalProps -> StoreLocal(data, name, val)

RecordedProps == {"parent", "parent_type", "parent_bone", "head", "tail",
                  "matrix_parent_inverse", "matrix_world", "rotation_mode"} \cup LocalProps

\* lines 96-122: the parsed value val of the property name stored
StoreProp(st, h, name, type, val) ==
    IF name \in RecordedProps
    THEN [st EXCEPT !.hm[h] = Recorded(@, name, val)]
    ELSE IF type = "POINTER"
    THEN [st EXCEPT !.links = Append(@, <<h, name, val>>)]
    ELSE [st EXCEPT !.b = TrySetAttr(@, h, name, val)]

\* lines 89-122: one Prop element applied to the entity h
ApplyProp(st, h, prop) ==
    IF prop.a.name \in SkippedProps THEN st
    ELSE StoreProp(st, h, prop.a.name, prop.a.type,
                   parse_typed_value(prop.a.value, prop.a.type,
                                     GetAttr(prop, "structure_type", "")))

RECURSIVE ApplyProps(_, _, _)
ApplyProps(st, h, props) ==
    IF props = <<>> THEN st
    ELSE ApplyProps(ApplyProp(st, h, Head(props)), h, Tail(props))

\* import.py apply_xml_properties(blender_obj, xml_node)
apply_xml_properties(st, h, xml_node) ==
    LET props == Find(xml_node, "Properties")
    IN  IF ~ElemTrue(props) THEN st
        ELSE ApplyProps(IF h \in DOMAIN st.hm THEN st ELSE PutRecord(st, h, FreshRecord),
                        h, FindAll(props, "Prop"))

\* element.iter(tag) over the descendants of e, in document order
RECURSIVE IterSeq(_, _)
IterSeq(elems, tag) ==
    IF elems = <<>> THEN <<>>
    ELSE LET e == Head(elems)
         IN  (IF e.tag = tag THEN <<e>> ELSE <<>>)
                 \o IterSeq(e.ch, tag) \o IterSeq(Tail(elems), tag)

Iter(e, tag) == IterSeq(e.ch, tag)

\* lines 330-334 merged into the first pass: only a bone that is already in
\* bone_map when the child is created becomes its parent
ParentOfBoneDeclaredBefore(child, parent_name, bone_map) ==
    IF parent_name # NoAttr /\ parent_name # "" /\ parent_name \in DOMAIN bone_map
       /\ bone_map[parent_name] < child
    THEN bone_map[parent_name]
    ELSE 0

\* lines 332-334: the bone that becomes the parent of the bone child, 0 for
\* none, bone_map holding every bone of the list
ParentOfBone(child, parent_name, bone_map) ==
    IF parent_name # NoAttr /\ parent_name # "" /\ parent_name \in DOMAIN bone_map
    THEN bone_map[parent_name]
    ELSE 0

NoBoneMap == [k \in {} |-> 0]

\* lines 319-327: the edit bones created for the Bone elements, named
\* uniquely, and bone_map from the names of the document to the bones
RECURSIVE CreateBones(_, _, _)
CreateBones(bone_nodes, bones, bone_map) ==
    IF bone_nodes = <<>> THEN [bones |-> bones, bone_map |-> bone_map]
    ELSE LET name == Head(bone_nodes).a.name
             eb == [name |-> UniqueName(name, NamesIn(bones)), parent |-> 0]
         IN  CreateBones(Tail(bone_nodes), Append(bones, eb),
                         Put(bone_map, name, Len(bones) + 1))

\* lines 330-335: bone_map[name].parent = bone_map[parent_name]
RECURSIVE AssignBoneParents(_, _, _)
AssignBoneParents(bone_nodes, bones, bone_map) ==
    IF bone_nodes = <<>> THEN bones
    ELSE LET child == bone_map[Head(bone_nodes).a.name]
             par == ParentOfBone(child, Head(bone_nodes).a.parent_name, bone_map)
         IN  AssignBoneParents(Tail(bone_nodes),
                 IF par # 0 THEN [bones EXCEPT ![child].parent = par] ELSE bones,
                 bone_map)

\* the pose bones the host gives the armature object, one per bone
PoseBonesOf(bones, arm_obj) ==
    [i \in 1..Len(bones) |-> NewID(bones[i].name, "POSEBONE", arm_obj)]

\* lines 294-296: the armature and the object that carries it, both named
\* arm_name
ArmObject(st, arm_name) ==
    [st EXCEPT !.b = AddID(@, "Object", arm_name, "ARMATURE", LastH(@, "Armature"))]

NewArm(st, arm_name) ==
    ArmObject([st EXCEPT !.b = AddID(@, "Armature", arm_name, "ARMATURE", NoneH)], arm_name)

\* line 309: bpy.context.scene.collection.objects.link(arm_obj)
LinkArm(st) ==
    [st EXCEPT !.b.objects[Len(st.b.objects)].cols = @ \cup {"Scene Collection"}]

\* lines 298-307
RecordArm(st) ==
    PutRecord(PutRecord(st, LastH(st.b, "Object"), FreshRecord),
              LastH(st.b, "Armature"), ObjectRecord(LastH(st.b, "Object")))

\* lines 332-335 after lines 319-327
BonesOf(bone_nodes, made) == AssignBoneParents(bone_nodes, made.bones, made.bone_map)

\* lines 313-338: the bones stored in the armature, and the pose bones the
\* object has when edit mode is left
WithBones(st, bones) ==
    [st EXCEPT !.b.armatures[Len(st.b.armatures)].bones = bones,
               !.b.posebones = @ \o PoseBonesOf(bones, LastH(st.b, "Object"))]

\* lines 319-335 over the Bone elements; a Bone without a name raises at
\* line 324
EditBones(st, bone_nodes) ==
    IF \E i \in 1..Len(bone_nodes) : bone_nodes[i].a.name = NoAttr
    THEN [st EXCEPT !.raised = TRUE]
    ELSE WithBones(st, BonesOf(bone_nodes, CreateBones(bone_nodes, <<>>, NoBoneMap)))

\* lines 315-319: bones_node.iter('Bone') raises when there is no Bones
\* element
RebuildBones(st, bones_node) ==
    IF bones_node = NoElem THEN [st EXCEPT !.raised = TRUE]
    ELSE EditBones(st, Iter(bones_node, "Bone"))

\* import.py rebuild_armature_from_xml(armature_data_node); the head, tail
\* and baked pose of a bone are not followed
rebuild_armature_from_xml(st, arm_node) ==
    RebuildBones(
        RecordArm(LinkArm(NewArm(st, GetAttr(arm_node, "name", "Armature")))),
        Find(arm_node, "Bones"))

\* a loop "for node in nodes: body(node)" that an exception leaves
RECURSIVE ImportArmatures(_, _)
ImportArmatures(st, nodes) ==
    IF nodes = <<>> \/ st.raised THEN st
    ELSE ImportArmatures(rebuild_armature_from_xml(st, Head(nodes)), Tail(nodes))

\* the state of a file: not there, an image, or a file that does not load
FileStates == {"none", "image", "corrupt"}

\* os.path.basename(rel_path)
Basename(path) == IF path = <<>> THEN "" ELSE path[Len(path)]

\* lines 366-367: the file of that name in the textures directory
TexFile(fs, filename) == IF filename \in DOMAIN fs THEN fs[filename].tex ELSE "none"

\* the file of that name that the search of load_image arrives at
FoundFile(fs, filename) == IF filename \in DOMAIN fs THEN fs[filename].found ELSE "none"

\* lines 363-374: img is an image after the block "if rel_path": loaded in
\* the try block of line 369, or by load_image, which returns None for a
\* file it does not find or cannot load
Loaded(fs, rel_path) ==
    /\ rel_path # NoPath
    /\ rel_path # <<>>
    /\ \/ TexFile(fs, Basename(rel_path)) = "image"
       \/ FoundFile(fs, Basename(rel_path)) = "image"

\* lines 363-374 without the try block of lines 368-371: the exception of a
\* file that does not load leaves import_libraries
ImportImageUncaught(st, i_node) ==
    IF i_node.a.name = NoAttr
       \/ (i_node.a.filepath # NoPath /\ i_node.a.filepath # <<>>
           /\ TexFile(st.files, Basename(i_node.a.filepath)) = "corrupt")
    THEN [st EXCEPT !.raised = TRUE]
    ELSE [st EXCEPT !.b = AddID(@, "Image", i_node.a.name,
                                IF Loaded(st.files, i_node.a.filepath) THEN "IMAGE"
                                ELSE "UV_TEST", NoneH)]

\* lines 359-384 for one Image element: the image loaded and named, or the
\* generated placeholder; "img.name = name" and images.new(name, 32, 32)
\* raise when the element has no name
ImportImage(st, i_node) ==
    IF i_node.a.name = NoAttr THEN [st EXCEPT !.raised = TRUE]
    ELSE [st EXCEPT !.b = AddID(@, "Image", i_node.a.name,
                                IF Loaded(st.files, i_node.a.filepath) THEN "IMAGE"
                                ELSE "UV_TEST", NoneH)]

\* lines 357-384
RECURSIVE ImportImages(_, _)
ImportImages(st, nodes) ==
    IF nodes = <<>> \/ st.raised THEN st
    ELSE ImportImages(ImportImage(st, Head(nodes)), Tail(nodes))

\* lines 390, 439, 443: the properties of the entity just created
BlockProps(st, kind, node) == apply_xml_properties(st, LastH(st.b, kind), node)

\* lines 386-390, 436-443, 479-482: the entities of one list of the
\* library, each created under its name and given its properties; the
\* pixels, node trees and curves are not followed
RECURSIVE ImportBlocks(_, _, _, _)
ImportBlocks(st, nodes, kind, type) ==
    IF nodes = <<>> THEN st
    ELSE ImportBlocks(
             BlockProps([st EXCEPT !.b = AddID(@, kind, Head(nodes).a.name, type, NoneH)],
                        kind, Head(nodes)),
             Tail(nodes), kind, type)

\* the number of entities the registry holds
Size(b) ==
    Len(b.objects) + Len(b.meshes) + Len(b.materials) + Len(b.lights) + Len(b.cameras)
        + Len(b.armatures) + Len(b.actions) + Len(b.images) + Len(b.modifiers)

\* a lookup by name in the registry (collection.get(name), name in
\* collection, or a search by o.name) when cond holds: the first one of the
\* run is noted with the number of entities the registry holds then
LookedIf(st, cond) ==
    IF cond /\ st.looked = -1 THEN [st EXCEPT !.looked = Size(st.b)] ELSE st

\* lines 408-412: a material per slot, found by name or created
RECURSIVE ImportSlots(_, _)
ImportSlots(b, slots) ==
    IF slots = <<>> THEN b
    ELSE ImportSlots(IF GetByName(b, "Material", Head(slots).a.name) = NoneH
                     THEN AddID(b, "Material", Head(slots).a.name, "MATERIAL", NoneH)
                     ELSE b,
                     Tail(slots))

\* lines 397-412: the material slots of a mesh that has geometry
MeshSlots(b, m_node) ==
    IF ElemTrue(Find(m_node, "Geometry")) /\ ElemTrue(Find(m_node, "MaterialSlots"))
    THEN ImportSlots(b, FindAll(Find(m_node, "MaterialSlots"), "Slot"))
    ELSE b

\* lines 393-434
RECURSIVE ImportMeshes(_, _)
ImportMeshes(st, nodes) ==
    IF nodes = <<>> THEN st
    ELSE ImportMeshes(
             apply_xml_properties(
                 LookedIf([st EXCEPT !.b = MeshSlots(AddID(@, "Mesh", Head(nodes).a.name,
                                                           "MESH", NoneH),
                                                     Head(nodes))],
                          /\ ElemTrue(Find(Head(nodes), "Geometry"))
                          /\ ElemTrue(Find(Head(nodes), "MaterialSlots"))),
                 H("Mesh", Len(st.b.meshes) + 1), Head(nodes)),
             Tail(nodes))

\* "if libs.find(tag): for node in libs.find(tag).findall(child)"
ListOf(libs, tag, child) ==
    IF ElemTrue(Find(libs, tag)) THEN FindAll(Find(libs, tag), child) ELSE <<>>

\* "if libs.find(tag): for node in libs.find(tag)"
ChildrenOf(libs, tag) ==
    IF ElemTrue(Find(libs, tag)) THEN Find(libs, tag).ch ELSE <<>>

\* lines 386-447 with the meshes (392-434) taken before the materials
\* (386-390)
ImportLibraryBlocksMeshesFirst(st, libs) ==
    IF st.raised THEN st
    ELSE ImportArmatures(
             ImportBlocks(
                 ImportBlocks(
                     ImportBlocks(ImportMeshes(st, ListOf(libs, "Meshes", "Mesh")),
                                  ListOf(libs, "Materials", "Material"),
                                  "Material", "MATERIAL"),
                     ChildrenOf(libs, "Lights"), "Light", "POINT"),
                 ChildrenOf(libs, "Cameras"), "Camera", "CAMERA"),
             ListOf(libs, "Armatures", "ArmatureData"))

\* lines 386-447, which an exception of lines 357-384 does not reach
ImportLibraryBlocks(st, libs) ==
    IF st.raised THEN st
    ELSE ImportArmatures(
             ImportBlocks(
                 ImportBlocks(
                     ImportMeshes(
                         ImportBlocks(st, ListOf(libs, "Materials", "Material"),
                                      "Material", "MATERIAL"),
                         ListOf(libs, "Meshes", "Mesh")),
                     ChildrenOf(libs, "Lights"), "Light", "POINT"),
                 ChildrenOf(libs, "Cameras"), "Camera", "CAMERA"),
             ListOf(libs, "Armatures", "ArmatureData"))

\* lines 479-482, which an exception of line 447 does not reach
ImportActions(st, libs) ==
    IF st.raised THEN st
    ELSE ImportBlocks(st, ListOf(libs, "Actions", "Action"), "Action", "ACTION")

\* import.py import_libraries(root, xml_dir)
import_libraries(st, root) ==
    LET libs == Find(root, "Libraries")
    IN  IF ~ElemTrue(libs) THEN st
        ELSE ImportActions(
                 ImportLibraryBlocks(ImportImages(st, ListOf(libs, "Images", "Image")), libs),
                 libs)

\* the type of the object that objects.new(name, data) makes
TypeOfData(data) ==
    CASE data[1] = "Mesh" -> "MESH"
      [] data[1] = "Light" -> "LIGHT"
      [] data[1] = "Camera" -> "CAMERA"
      [] data[1] = "Armature" -> "ARMATURE"
      [] OTHER -> "EMPTY"

\* "a or b": the first handle that is not None
Or(a, b) == IF a # NoneH THEN a ELSE b

IsSet(s) == s # NoAttr /\ s # ""

\* lines 505-508
DataBlockOf(b, data_name) ==
    IF IsSet(data_name)
    THEN Or(GetByName(b, "Mesh", data_name),
         Or(GetByName(b, "Light", data_name),
         Or(GetByName(b, "Camera", data_name), GetByName(b, "Armature", data_name))))
    ELSE NoneH

\* line 526: the first object with that name and data block, or None
ExistingObj(b, name, data_block) ==
    IF \E i \in 1..Len(b.objects) : b.objects[i].name = name /\ b.objects[i].data = data_block
    THEN H("Object", CHOOSE i \in 1..Len(b.objects) :
                        /\ b.objects[i].name = name /\ b.objects[i].data = data_block
                        /\ \A j \in 1..(i - 1) :
                              ~(b.objects[j].name = name /\ b.objects[j].data = data_block))
    ELSE NoneH

\* lines 553-557: obj.modifiers.new(name, type), then its properties
RECURSIVE ImportModifiers(_, _, _)
ImportModifiers(st, obj, m_nodes) ==
    IF m_nodes = <<>> \/ st.raised THEN st
    ELSE IF Head(m_nodes).a.type = NoAttr \/ Head(m_nodes).a.name = NoAttr
    THEN [st EXCEPT !.raised = TRUE]
    ELSE ImportModifiers(
             apply_xml_properties(
                 [st EXCEPT !.b.modifiers =
                     Append(@, NewID(Head(m_nodes).a.name, Head(m_nodes).a.type, obj))],
                 H("Modifier", Len(st.b.modifiers) + 1), Head(m_nodes)),
             obj, Tail(m_nodes))

\* lines 510-511: the armature named by data_name, or None
ArmatureOf(b, data_name) ==
    IF IsSet(data_name) THEN GetByName(b, "Armature", data_name) ELSE NoneH

\* line 512: the armature was rebuilt with an object of its own
IsRebuilt(st, arm_data) ==
    /\ arm_data # NoneH
    /\ arm_data \in DOMAIN st.hm
    /\ st.hm[arm_data].object # NoneH

\* lines 514-520: the object of the armature linked to the collection, its
\* pose and its action deferred
LinkArmature(st, obj, obj_node, collection) ==
    [st EXCEPT
       !.b.objects[obj[2]].cols = @ \cup {collection},
       !.poses = IF Ent(st.b, obj).type = "ARMATURE" /\ ElemTrue(Find(obj_node, "Pose"))
                 THEN Append(@, <<obj, Find(obj_node, "Pose")>>) ELSE @,
       !.acts = IF IsSet(obj_node.a.active_action)
                THEN Append(@, <<obj, obj_node.a.active_action>>) ELSE @]

\* lines 530-531: the object bn has just received, linked to the collection
LinkNew(bn, collection) ==
    [b |-> [bn EXCEPT !.objects[Len(bn.objects)].cols = {collection}],
     obj |-> LastH(bn, "Object")]

\* lines 526-531: the object with that name and data block, created when
\* there is none, and the registry that holds it
ObjectOr(b, existing_obj, name, data_block, collection) ==
    IF existing_obj # NoneH THEN [b |-> b, obj |-> existing_obj]
    ELSE LinkNew(AddID(b, "Object", name, TypeOfData(data_block), data_block), collection)

ObjectFor(b, name, data_block, collection) ==
    ObjectOr(b, ExistingObj(b, name, data_block), name, data_block, collection)

\* lines 544-545: obj.parent = parent_obj
WithParent(b, obj, parent_obj) ==
    IF parent_obj # NoneH THEN [b EXCEPT !.objects[obj[2]].parent = parent_obj] ELSE b

\* lines 553-557
ModifiersOf(st, obj, mods_node) ==
    IF ElemTrue(mods_node) THEN ImportModifiers(st, obj, FindAll(mods_node, "Modifier"))
    ELSE st

\* lines 533-557: the object made.obj recorded in HIERARCHY_MAP, parented,
\* given its properties and its modifiers
ObjectContents(st, obj_node, collection, parent_obj, made) ==
    ModifiersOf(
        apply_xml_properties(
            PutRecord([st EXCEPT !.b = WithParent(made.b, made.obj, parent_obj)],
                      made.obj, FreshRecord),
            made.obj, obj_node),
        made.obj, Find(obj_node, "Modifiers"))

\* import.py import_object(parent_node, collection, parent_obj), obj_nodes
\* being the Object elements of parent_node that the loop has not reached;
\* animation tracks and vertex groups are not followed
RECURSIVE import_object(_, _, _, _)
import_object(st, obj_nodes, collection, parent_obj) ==
    IF obj_nodes = <<>> \/ st.raised THEN st
    ELSE IF st.looked = -1
    THEN \* lines 505-510 and 526 look the data block and the object up by name
         import_object(LookedIf(st, TRUE), obj_nodes, collection, parent_obj)
    ELSE
    IF IsRebuilt(st, ArmatureOf(st.b, Head(obj_nodes).a.data_name))
    THEN \* lines 513-524: the object made with the armature; the return of
         \* line 524 ends the loop over obj_nodes
         import_object(
             apply_xml_properties(
                 LinkArmature(st, st.hm[ArmatureOf(st.b, Head(obj_nodes).a.data_name)].object,
                              Head(obj_nodes), collection),
                 st.hm[ArmatureOf(st.b, Head(obj_nodes).a.data_name)].object,
                 Head(obj_nodes)),
             FindAll(Head(obj_nodes), "Object"), collection,
             st.hm[ArmatureOf(st.b, Head(obj_nodes).a.data_name)].object)
    ELSE import_object(
             import_object(
                 ObjectContents(st, Head(obj_nodes), collection, parent_obj,
                                ObjectFor(st.b, GetAttr(Head(obj_nodes), "name", "Obj"),
                                          DataBlockOf(st.b, Head(obj_nodes).a.data_name),
                                          collection)),
                 FindAll(Head(obj_nodes), "Object"), collection,
                 ObjectFor(st.b, GetAttr(Head(obj_nodes), "name", "Obj"),
                           DataBlockOf(st.b, Head(obj_nodes).a.data_name), collection).obj),
             Tail(obj_nodes), collection, parent_obj)

\* import.py import_collections(parent_xml, parent_col), col_nodes being the
\* Collection elements of parent_xml that the loop has not reached
RECURSIVE import_collections(_, _, _)
import_collections(st, col_nodes, parent_col) ==
    IF col_nodes = <<>> \/ st.raised THEN st
    ELSE import_collections(
             import_collections(
                 import_object(
                     [st EXCEPT !.b.collections =
                         @ \cup {GetAttr(Head(col_nodes), "name", "Collection")}],
                     FindAll(Head(col_nodes), "Object"),
                     GetAttr(Head(col_nodes), "name", "Collection"), NoneH),
                 FindAll(Head(col_nodes), "Collection"),
                 GetAttr(Head(col_nodes), "name", "Collection")),
             Tail(col_nodes), parent_col)

\* line 710, which an exception of line 709 does not reach
SceneProps(st, s_node) ==
    IF st.raised THEN st ELSE apply_xml_properties(st, H("Scene", 1), s_node)

\* lines 700-710: the loop over the Scene elements
RECURSIVE ImportScenes(_, _)
ImportScenes(st, s_nodes) ==
    IF s_nodes = <<>> \/ st.raised THEN st
    ELSE ImportScenes(
             SceneProps(import_collections([st EXCEPT !.b.scenes[1].name = Head(s_nodes).a.name],
                                           FindAll(Head(s_nodes), "Collection"),
                                           "Scene Collection"),
                        Head(s_nodes)),
             Tail(s_nodes))

\* "entity.name = val" outside any try: an exception leaves the function
Assign(st, h, name, val) ==
    IF st.raised THEN st
    ELSE IF Settable(h[1], name, val)
    THEN [st EXCEPT !.b = TrySetAttr(st.b, h, name, val)]
    ELSE [st EXCEPT !.raised = TRUE]

\* line 623: the keys of HIERARCHY_MAP that are objects, in insertion order
ValidObjects(st) == SelectSeq(st.order, LAMBDA h : h[1] = "Object")

\* lines 627-646 for one object
ResolveParent(st, obj) ==
    LET data == st.hm[obj]
    IN  IF ~Truthy(data.parent) THEN st
        ELSE IF data.parent[1] # "str" THEN [st EXCEPT !.raised = TRUE]
        ELSE LET parent == GetByName(st.b, "Object", TextStr(data.parent[2]))
             IN  IF parent = NoneH
                 THEN [st EXCEPT !.warned = Append(@, TextStr(data.parent[2]))]
                 ELSE LET s1 == IF parent # obj
                                THEN [st EXCEPT !.b.objects[obj[2]].parent = parent]
                                ELSE st
                          s2 == IF Truthy(data.type)
                                THEN Assign(s1, obj, "parent_type", data.type) ELSE s1
                          s3 == IF Truthy(data.bone)
                                THEN Assign(Assign(s2, obj, "parent_type", PyStr(<<"BONE">>)),
                                            obj, "parent_bone", data.bone)
                                ELSE s2
                      IN  IF Truthy(data.inv)
                          THEN Assign(s3, obj, "matrix_parent_inverse", data.inv)
                          ELSE s3

RECURSIVE SetTransforms(_, _, _)
SetTransforms(b, obj, transforms) ==
    IF transforms = <<>> THEN b
    ELSE SetTransforms(TrySetAttr(b, obj, Head(transforms)[1], Head(transforms)[2]),
                       obj, Tail(transforms))

\* lines 655-666 without the else: the local components are assigned as well
ReconcileBoth(b, obj, data) ==
    SetTransforms(IF data.world_matrix # PyNone
                  THEN TrySetAttr(b, obj, "matrix_world", data.world_matrix)
                  ELSE b,
                  obj, data.transforms)

\* lines 655-666: the world matrix when one was recorded, else the local
\* components in recorded order
Reconcile(b, obj, data) ==
    IF data.world_matrix # PyNone
    THEN TrySetAttr(b, obj, "matrix_world", data.world_matrix)
    ELSE SetTransforms(b, obj, data.transforms)

\* lines 650-666 for one object
ResolveTransform(st, obj) ==
    LET data == st.hm[obj]
        s1 == IF data.rotation_mode # PyNone
              THEN Assign(st, obj, "rotation_mode", data.rotation_mode)
              ELSE st
    IN  IF s1.raised THEN s1 ELSE [s1 EXCEPT !.b = Reconcile(s1.b, obj, data)]

RECURSIVE ResolveParents(_, _)
ResolveParents(st, objs) ==
    IF objs = <<>> \/ st.raised THEN st
    ELSE ResolveParents(ResolveParent(Step(LookedIf(st, Truthy(st.hm[Head(objs)].parent)),
                                           "parent", Head(objs)),
                                      Head(objs)),
                        Tail(objs))

RECURSIVE ResolveTransforms(_, _)
ResolveTransforms(st, objs) ==
    IF objs = <<>> \/ st.raised THEN st
    ELSE ResolveTransforms(ResolveTransform(Step(st, "transform", Head(objs)), Head(objs)),
                           Tail(objs))

\* lines 626-666 as one loop: the transforms of each object reconciled
\* right after its parent is resolved
RECURSIVE ResolveEach(_, _)
ResolveEach(st, objs) ==
    IF objs = <<>> \/ st.raised THEN st
    ELSE ResolveEach(ResolveTransforms(ResolveParents(st, <<Head(objs)>>), <<Head(objs)>>),
                     Tail(objs))

ResolveHierarchyInOneLoop(st) == ResolveEach(st, ValidObjects(st))

\* import.py resolve_hierarchy()
resolve_hierarchy(st) ==
    ResolveTransforms(ResolveParents(st, ValidObjects(st)), ValidObjects(st))

\* lines 670-677 with the kinds searched from the last to the first
LinkKindsReversed ==
    <<"Image", "Light", "Camera", "Armature", "Action", "Material", "Mesh", "Object">>

\* lines 670-677: the kinds searched for a link target, in this order
LinkKinds == <<"Object", "Mesh", "Material", "Action", "Armature", "Camera", "Light", "Image">>

RECURSIVE FirstMatch(_, _, _)
FirstMatch(b, kinds, name) ==
    IF kinds = <<>> THEN NoneH
    ELSE Or(GetByName(b, Head(kinds), name), FirstMatch(b, Tail(kinds), name))

\* import.py resolve_links(), links being the entries not yet reached
RECURSIVE resolve_links(_, _)
resolve_links(st, links) ==
    IF links = <<>> \/ st.raised THEN st
    ELSE LET obj == Head(links)[1]
             prop_name == Head(links)[2]
             target_name == Head(links)[3]
         IN  IF target_name[1] # "str" THEN [st EXCEPT !.raised = TRUE]
             ELSE LET target == FirstMatch(st.b, LinkKinds, TextStr(target_name[2]))
                  IN  resolve_links(IF target # NoneH
                                    THEN [Step(LookedIf(st, TRUE), "link", obj)
                                             EXCEPT !.b = TrySetAttr(@, obj, prop_name, target)]
                                    ELSE Step(LookedIf(st, TRUE), "link", obj),
                                    Tail(links))

\* obj.pose.bones.get(name)
PoseBoneOf(b, obj, name) ==
    IF \E i \in 1..Len(b.posebones) : b.posebones[i].data = obj /\ b.posebones[i].name = name
    THEN H("PoseBone", CHOOSE i \in 1..Len(b.posebones) :
                          b.posebones[i].data = obj /\ b.posebones[i].name = name)
    ELSE NoneH

\* lines 606-609
RECURSIVE ApplyPose(_, _, _)
ApplyPose(st, obj, pb_nodes) ==
    IF pb_nodes = <<>> \/ st.raised THEN st
    ELSE LET pb_node == Head(pb_nodes)
             pbone == PoseBoneOf(st.b, obj, pb_node.a.name)
         IN  IF pb_node.a.name = NoAttr THEN [st EXCEPT !.raised = TRUE]
             ELSE ApplyPose(IF pbone # NoneH
                            THEN apply_xml_properties(Step(st, "pose", pbone), pbone, pb_node)
                            ELSE st,
                            obj, Tail(pb_nodes))

\* import.py apply_deferred_poses(), poses being the entries not yet reached
RECURSIVE apply_deferred_poses(_, _)
apply_deferred_poses(st, poses) ==
    IF poses = <<>> \/ st.raised THEN st
    ELSE LET obj == Head(poses)[1]
             pose_node == Head(poses)[2]
         IN  apply_deferred_poses(
                 IF Ent(st.b, obj).type # "ARMATURE" THEN st
                 ELSE ApplyPose(st, obj, FindAll(pose_node, "HBone")),
                 Tail(poses))

\* import.py apply_deferred_actions(), acts being the entries not yet reached
RECURSIVE apply_deferred_actions(_, _)
apply_deferred_actions(st, acts) ==
    IF acts = <<>> THEN st
    ELSE LET obj == Head(acts)[1]
             act == GetByName(st.b, "Action", Head(acts)[2])
         IN  apply_deferred_actions(
                 IF act # NoneH
                 THEN [Step(st, "action", obj) EXCEPT !.b.objects[obj[2]].action = act]
                 ELSE st,
                 Tail(acts))

\* import.py clean_scene(): every object and data block removed, one scene
\* kept, the four globals emptied
clean_scene(st) ==
    [b |-> [EmptyBpy EXCEPT !.scenes = <<NewID("Scene", "SCENE", NoneH)>>,
                            !.collections = {"Scene Collection"}
                                \cup (st.b.collections \cap {"Collection"})],
     hm |-> EmptyMap, order |-> <<>>, links |-> <<>>, poses |-> <<>>, acts |-> <<>>,
     raised |-> FALSE, files |-> st.files, warned |-> st.warned, looked |-> st.looked]

(***************************************************************************)
(* importFromXML as a state machine: one action per statement of lines     *)
(* 694-716.  The file has been parsed; doc is its root element.            *)
(***************************************************************************)
St == [b |-> bpy, hm |-> HIERARCHY_MAP, order |-> hmorder, links |-> DEFERRED_LINKS,
       poses |-> DEFERRED_POSES, acts |-> DEFERRED_ACTIONS, raised |-> FALSE,
       files |-> files, warned |-> warned, looked |-> looked]

\* the globals after a function has run; an exception ends the import at the
\* handler of lines 720-724
Continue(st, next) ==
    /\ bpy' = st.b
    /\ HIERARCHY_MAP' = st.hm
    /\ hmorder' = st.order
    /\ DEFERRED_LINKS' = st.links
    /\ DEFERRED_POSES' = st.poses
    /\ DEFERRED_ACTIONS' = st.acts
    /\ warned' = st.warned
    /\ looked' = st.looked
    /\ ipc' = IF st.raised THEN "aborted" ELSE next
    /\ UNCHANGED <<blend, doc, files, codecVars, findVars>>

\* line 694
CleanScene ==
    /\ ipc = "clean"
    /\ Continue(clean_scene(St), "libraries")

\* line 696
ImportLibraries ==
    /\ ipc = "libraries"
    /\ Continue(import_libraries(St, doc), "scenes")

\* lines 698-710
ImportCollections ==
    /\ ipc = "scenes"
    /\ LET scenes == Find(doc, "Scenes")
       IN  Continue(IF ElemTrue(scenes) THEN ImportScenes(St, FindAll(scenes, "Scene")) ELSE St,
                    "hierarchy")

\* line 712
ResolveHierarchy ==
    /\ ipc = "hierarchy"
    /\ Continue(resolve_hierarchy(St), "links")

\* line 713
ResolveLinks ==
    /\ ipc = "links"
    /\ Continue(resolve_links(St, DEFERRED_LINKS), "poses")

\* line 715
ApplyDeferredPoses ==
    /\ ipc = "poses"
    /\ Continue(apply_deferred_poses(St, DEFERRED_POSES), "actions")

\* line 716
ApplyDeferredActions ==
    /\ ipc = "actions"
    /\ Continue(apply_deferred_actions(St, DEFERRED_ACTIONS), "done")

NextImport ==
    \/ CleanScene
    \/ ImportLibraries
    \/ ImportCollections
    \/ ResolveHierarchy
    \/ ResolveLinks
    \/ ApplyDeferredPoses
    \/ ApplyDeferredActions

(***************************************************************************)
(* The documents the importer is run on.                                   *)
(***************************************************************************)
Named(tag, name, ch) == Elem(tag, [NoAttrs EXCEPT !.name = name], ch)

Prop(name, type, value, structure_type) ==
    Elem("Prop", [NoAttrs EXCEPT !.name = name, !.type = type, !.value = value,
                                 !.structure_type = structure_type], <<>>)

Properties(props) == Elem("Properties", NoAttrs, props)

ObjectElem(name, data_name, props, rest) ==
    Elem("Object", [NoAttrs EXCEPT !.name = name, !.data_name = data_name],
         <<Properties(props)>> \o rest)

Bone(name, parent_name) ==
    Elem("Bone", [NoAttrs EXCEPT !.name = name, !.parent_name = parent_name], <<>>)

ArmatureData(name, bones) ==
    Named("ArmatureData", name, <<Properties(<<>>), Elem("Bones", NoAttrs, bones)>>)

Block(tag, name) == Named(tag, name, <<Properties(<<>>)>>)

\* a library with one data block of every kind; the skeleton declares the
\* child bone before its parent
LibrariesWith(armatures) ==
    Elem("Libraries", NoAttrs,
         <<Elem("Images", NoAttrs, <<Block("Image", "Tex")>>),
           Elem("Meshes", NoAttrs, <<Block("Mesh", "Cube")>>),
           Elem("Materials", NoAttrs, <<Block("Material", "Mat")>>),
           Elem("Lights", NoAttrs, <<Block("Light", "Lamp")>>),
           Elem("Cameras", NoAttrs, <<Block("Camera", "Cam")>>),
           Elem("Armatures", NoAttrs, armatures),
           Elem("Actions", NoAttrs, <<Block("Action", "Act")>>)>>)

FixedLibraries ==
    LibrariesWith(<<ArmatureData("Rig", <<Bone("Child", "Root"), Bone("Root", "")>>)>>)

SceneWith(cols) ==
    Elem("Scenes", NoAttrs, <<Named("Scene", "Scene", <<Properties(<<>>)>> \o cols)>>)

Collection(name, ch) == Named("Collection", name, <<Properties(<<>>)>> \o ch)

\* the root element, the Libraries section first or last
Root(libs, scenes, libsFirst) ==
    Elem("BlenderData", NoAttrs, IF libsFirst THEN <<libs, scenes>> ELSE <<scenes, libs>>)

\* the objects (any depth) directly in the master collection, or in a
\* collection nested in it
Placed(objs, nested) ==
    SceneWith(<<Collection("Scene Collection",
                  IF nested THEN <<Collection("Sub", objs)>> ELSE objs)>>)

MatrixText == <<"1.0", "0.0", "0.0", "1.0",   "0.0", "1.0", "0.0", "2.0",
                "0.0", "0.0", "1.0", "0.5",   "0.0", "0.0", "0.0", "1.0">>

\* the Prop elements an instance is given: a world matrix, one that does not
\* decode, local components, a rotation mode, one that the host does not
\* know, a plain attribute
PropChoices ==
    {Prop("matrix_world", "MATRIX_4X4", MatrixText, "MATRIX_4X4"),
     Prop("matrix_world", "FLOAT", <<"1.0", "2.0", "0.5">>, "VECTOR"),
     Prop("matrix_world", "MATRIX_4X4", SubSeq(MatrixText, 1, 15), "MATRIX_4X4"),
     Prop("location", "FLOAT", <<"1.0", "2.0", "0.5">>, "VECTOR"),
     Prop("rotation_euler", "EULER", <<"0.0", "0.5", "0.0">>, "EULER"),
     Prop("scale", "FLOAT", <<"2.0", "2.0">>, "VECTOR"),
     Prop("rotation_mode", "STRING", <<"XYZ">>, NoAttr),
     Prop("rotation_mode", "STRING", <<"BOGUS">>, NoAttr),
     Prop("hide_render", "BOOLEAN", <<"True">>, NoAttr)}

PropSeqs == UNION {[1..n -> PropChoices] : n \in 0..MaxProps}

ObName(i) == "Ob" \o ToString(i)

DataNames == {NoAttr, "Cube", "Lamp", "Cam", "Rig"}

\* the Object elements whose parent element is object p (0: the collection)
\* of a tree of n objects, object i lying in object up[i] < i
RECURSIVE TreeFrom(_, _, _, _, _)
TreeFrom(n, up, data, p, i) ==
    IF i > n THEN <<>>
    ELSE (IF up[i] = p
          THEN <<ObjectElem(ObName(i), data[i], <<>>, TreeFrom(n, up, data, i, i + 1))>>
          ELSE <<>>) \o TreeFrom(n, up, data, p, i + 1)

Shapes(n) == {up \in [1..n -> 0..(n - 1)] : \A i \in 1..n : up[i] < i}

\* a scene tree of n objects of every kind, at every depth
TreeDoc(n, up, data, variant) ==
    Root(FixedLibraries, Placed(TreeFrom(n, up, data, 0, 1), variant = "nested"),
         variant # "scenesFirst")

Variants == {"plain", "nested", "scenesFirst"}

Modifier(name, type, props) ==
    Elem("Modifier", [NoAttrs EXCEPT !.name = name, !.type = type], <<Properties(props)>>)

\* object i of two that name each other: by a parent Prop when par, by the
\* object Prop of a modifier when mod
RefObject(i, data_name, par, mod) ==
    ObjectElem(ObName(i), data_name,
        IF par THEN <<Prop("parent", "POINTER", <<ObName(3 - i)>>, NoAttr)>> ELSE <<>>,
        IF mod THEN <<Elem("Modifiers", NoAttrs,
                          <<Modifier("Mod", "ARMATURE",
                               <<Prop("object", "POINTER", <<ObName(3 - i)>>, NoAttr)>>)>>)>>
        ELSE <<>>)

\* two sibling objects, object first declared first
RefDoc(first, data, par, mod) ==
    Root(FixedLibraries,
         Placed(<<RefObject(first, data[first], par[first], mod[first]),
                  RefObject(3 - first, data[3 - first], par[3 - first], mod[3 - first])>>,
                FALSE),
         TRUE)

(***************************************************************************)
(* The exporter (export.py) at the level of names, kinds, parents and the  *)
(* transform properties: the document it writes for the registry b.        *)
(* Geometry, images files, node trees, animation curves and vertex groups  *)
(* are not followed.                                                       *)
(***************************************************************************)
\* the value an attribute has when nothing has assigned it
DefaultOf(name) ==
    CASE name = "location" -> <<"Vector", <<0, 0, 0>>>>
      [] name = "scale" -> <<"Vector", <<2, 2, 2>>>>
      [] name = "rotation_euler" -> <<"Euler", <<0, 0, 0>>, "XYZ">>
      [] name = "rotation_quaternion" -> <<"Quaternion", <<2, 0, 0, 0>>>>
      [] name \in {"matrix_world", "matrix_parent_inverse"} ->
             <<"Matrix", [r \in 1..4 |-> [c \in 1..4 |-> IF r = c THEN 2 ELSE 0]]>>
      [] name = "rotation_mode" -> PyStr(<<"XYZ">>)
      [] name = "parent_type" -> PyStr(<<"OBJECT">>)
      [] name \in {"parent_bone", "filepath"} -> PyStr(<<"">>)
      [] name = "hide_render" -> PyBool(FALSE)
      [] OTHER -> PyNone

\* the value of a pointer attribute: the entity, or None
IdOf(b, h) == IF h = NoneH THEN PyNone ELSE <<"ID", h[1], Ent(b, h).name>>

\* hasattr(entity, name)
HasAttr(kind, name) ==
    \/ name = "name"
    \/ name = "type" /\ kind \in {"Object", "Light", "Camera", "Image", "Modifier"}
    \/ name = "parent" /\ kind \in {"Object", "PoseBone"}
    \/ name \in Writable(kind)

\* getattr(entity, name)
GetAttrOf(b, h, name) ==
    LET ent == Ent(b, h)
    IN  IF ~HasAttr(h[1], name) THEN AttrError
        ELSE IF name = "name" THEN PyStr(<<ent.name>>)
        ELSE IF name = "type" THEN PyStr(<<ent.type>>)
        ELSE IF name = "parent" THEN IdOf(b, ent.parent)
        ELSE IF ent.attrs[name] = Unset THEN DefaultOf(name)
        ELSE IF PointerKind(name) # "None" THEN IdOf(b, ent.attrs[name])
        ELSE ent.attrs[name]

\* entity.bl_rna.properties without the read-only ones: identifier and RNA
\* type, in the order of the host
RnaProps(kind) ==
    CASE kind = "Object" ->
             <<<<"name", "STRING">>, <<"parent", "POINTER">>, <<"parent_type", "ENUM">>,
               <<"parent_bone", "STRING">>, <<"location", "FLOAT">>,
               <<"rotation_quaternion", "FLOAT">>, <<"rotation_euler", "FLOAT">>,
               <<"rotation_mode", "ENUM">>, <<"scale", "FLOAT">>,
               <<"matrix_world", "FLOAT">>, <<"matrix_parent_inverse", "FLOAT">>,
               <<"hide_render", "BOOLEAN">>, <<"active_material", "POINTER">>>>
      [] kind = "PoseBone" ->
             <<<<"name", "STRING">>, <<"location", "FLOAT">>,
               <<"rotation_quaternion", "FLOAT">>, <<"rotation_euler", "FLOAT">>,
               <<"rotation_mode", "ENUM">>, <<"scale", "FLOAT">>>>
      [] kind = "Modifier" -> <<<<"name", "STRING">>, <<"object", "POINTER">>>>
      [] kind = "Image" -> <<<<"name", "STRING">>, <<"filepath", "STRING">>>>
      [] OTHER -> <<<<"name", "STRING">>>>

\* lines 85-118: the transform properties written first
ExplicitProps(b, h) ==
    LET rot_mode == IF HasAttr(h[1], "rotation_mode")
                    THEN StrText(GetAttrOf(b, h, "rotation_mode")) ELSE <<"XYZ">>
    IN  <<Prop("rotation_mode", "STRING", rot_mode, NoAttr)>>
        \o (IF HasAttr(h[1], "matrix_world")
            THEN <<Prop("matrix_world", "MATRIX_4X4",
                        Join(FloatFields(Flatten(GetAttrOf(b, h, "matrix_world")[2]))),
                        "MATRIX_4X4")>>
            ELSE <<>>)
        \o (IF HasAttr(h[1], "rotation_euler")
            THEN <<Prop("rotation_euler", "EULER",
                        Join(FloatFields(GetAttrOf(b, h, "rotation_euler")[2])), "EULER")>>
            ELSE <<>>)
        \o (IF HasAttr(h[1], "rotation_quaternion")
            THEN <<Prop("rotation_quaternion", "QUATERNION",
                        Join(FloatFields(GetAttrOf(b, h, "rotation_quaternion")[2])),
                        "QUATERNION")>>
            ELSE <<>>)

\* lines 120-130
skip_props(rot_mode) ==
    {"matrix_basis", "matrix_local", "matrix_custom", "matrix", "is_readonly", "data"}
    \cup (IF rot_mode = <<"QUATERNION">> THEN {"rotation_euler", "rotation_axis_angle"}
          ELSE IF rot_mode = <<"AXIS_ANGLE">> THEN {"rotation_euler", "rotation_quaternion"}
          ELSE {"rotation_quaternion", "rotation_axis_angle"})

\* lines 134-144: the Prop element written for the property identifier
\* whose value has the triple info, if any
RnaProp(identifier, info, skip) ==
    IF identifier \in skip
       \/ (info[2] = "POINTER" /\ (info[1] = <<"None">> \/ info[1] = <<"">>))
    THEN <<>>
    ELSE <<Prop(identifier, info[2], info[1], IF info[3] = "" THEN NoAttr ELSE info[3])>>

\* lines 132-144: the loop over the RNA properties not yet reached
RECURSIVE RnaLoop(_, _, _, _)
RnaLoop(b, h, props, skip) ==
    IF props = <<>> THEN <<>>
    ELSE RnaProp(Head(props)[1],
                 get_prop_info(GetAttrOf(b, h, Head(props)[1]), Head(props)[2]), skip)
         \o RnaLoop(b, h, Tail(props), skip)

\* export.py _write_rna_properties(xml_element, blender_object): the element
\* with its name and type set and its Properties child appended
write_rna_properties(xml_element, b, h) ==
    LET rot_mode == IF HasAttr(h[1], "rotation_mode")
                    THEN StrText(GetAttrOf(b, h, "rotation_mode")) ELSE <<"XYZ">>
        named == [xml_element EXCEPT
                     !.a.name = Ent(b, h).name,
                     !.a.type = IF HasAttr(h[1], "type") THEN Ent(b, h).type ELSE @]
    IN  [named EXCEPT !.ch = Append(@, Properties(ExplicitProps(b, h)
                                \o RnaLoop(b, h, RnaProps(h[1]), skip_props(rot_mode))))]

\* the handles of the entities of a kind, in registry order
HandlesOf(b, kind) == [i \in 1..Len(b[CollOf(kind)]) |-> H(kind, i)]

\* lines 433-437: the HBone elements of the pose bones not yet reached
RECURSIVE ExportPose(_, _)
ExportPose(b, pbones) ==
    IF pbones = <<>> THEN <<>>
    ELSE <<write_rna_properties(Named("HBone", Ent(b, Head(pbones)).name, <<>>),
                                b, Head(pbones))>>
         \o ExportPose(b, Tail(pbones))

\* lines 450-454
RECURSIVE ExportModifiers(_, _)
ExportModifiers(b, mods) ==
    IF mods = <<>> THEN <<>>
    ELSE <<write_rna_properties(Elem("Modifier", NoAttrs, <<>>), b, Head(mods))>>
         \o ExportModifiers(b, Tail(mods))

\* obj.children
ChildrenOfObj(b, obj) ==
    SelectSeq(HandlesOf(b, "Object"), LAMBDA h : Ent(b, h).parent = obj)

\* lines 427-431: data_name and active_action set when the object has them
WithNames(o_node, b, ent) ==
    [o_node EXCEPT
        !.a.data_name = IF ent.data # NoneH THEN Ent(b, ent.data).name ELSE @,
        !.a.active_action = IF ent.action # NoneH THEN Ent(b, ent.action).name ELSE @]

\* obj.pose.bones, obj.modifiers
OwnedBy(b, kind, obj) == SelectSeq(HandlesOf(b, kind), LAMBDA h : Ent(b, h).data = obj)

\* lines 433-437
WithPose(o_node, b, obj) ==
    IF Ent(b, obj).type = "ARMATURE"
    THEN [o_node EXCEPT !.ch = Append(@, Elem("Pose", NoAttrs,
                                            ExportPose(b, OwnedBy(b, "PoseBone", obj))))]
    ELSE o_node

\* lines 450-454
WithModifiers(o_node, b, mods) ==
    IF mods # <<>>
    THEN [o_node EXCEPT !.ch = Append(@, Elem("Modifiers", NoAttrs, ExportModifiers(b, mods)))]
    ELSE o_node

\* export.py _export_object_recursive(obj, parent_xml) for each object of
\* objs: the Object elements appended to parent_xml
RECURSIVE export_object_recursive(_, _)
export_object_recursive(b, objs) ==
    IF objs = <<>> THEN <<>>
    ELSE <<[WithModifiers(
                WithPose(
                    WithNames(write_rna_properties(Elem("Object", NoAttrs, <<>>), b, Head(objs)),
                              b, Ent(b, Head(objs))),
                    b, Head(objs)),
                b, OwnedBy(b, "Modifier", Head(objs)))
             EXCEPT !.ch = @ \o export_object_recursive(b, ChildrenOfObj(b, Head(objs)))]>>
         \o export_object_recursive(b, Tail(objs))

\* the objects without a parent among objs
RootsOf(b, objs) == SelectSeq(objs, LAMBDA h : Ent(b, h).parent = NoneH)

\* collection.objects
ObjectsIn(b, collection) ==
    SelectSeq(HandlesOf(b, "Object"), LAMBDA h : collection \in Ent(b, h).cols)

\* the names of a set of collections, one after the other
RECURSIVE NamesSeq(_)
NamesSeq(S) ==
    IF S = {} THEN <<>>
    ELSE LET c == CHOOSE c \in S : TRUE IN <<c>> \o NamesSeq(S \ {c})

\* export.py _export_collection_recursive(collection, parent_xml) for each
\* collection of cols; the collections other than the scene's are its children
RECURSIVE export_collection_recursive(_, _)
export_collection_recursive(b, cols) ==
    IF cols = <<>> THEN <<>>
    ELSE LET collection == Head(cols)
             col_node == Named("Collection", collection,
                               <<Properties(<<Prop("rotation_mode", "STRING", <<"XYZ">>, NoAttr),
                                              Prop("name", "STRING", <<collection>>, NoAttr)>>)>>)
             children == IF collection = "Scene Collection"
                         THEN NamesSeq(b.collections \ {"Scene Collection"}) ELSE <<>>
         IN  <<[col_node EXCEPT !.ch = @
                    \o export_object_recursive(b, RootsOf(b, ObjectsIn(b, collection)))
                    \o export_collection_recursive(b, children)]>>
             \o export_collection_recursive(b, Tail(cols))

\* export.py _export_scenes(root): the Scenes element; scene.objects are the
\* objects of the scene's collection and of its children
RECURSIVE ExportSceneNodes(_, _)
ExportSceneNodes(b, scenes) ==
    IF scenes = <<>> THEN <<>>
    ELSE LET s_node == write_rna_properties(Elem("Scene", NoAttrs, <<>>), b, Head(scenes))
             linked == SelectSeq(HandlesOf(b, "Object"), LAMBDA h : Ent(b, h).cols # {})
         IN  <<[s_node EXCEPT !.ch = @
                    \o export_collection_recursive(b, <<"Scene Collection">>)
                    \o export_object_recursive(b, RootsOf(b, linked))]>>
             \o ExportSceneNodes(b, Tail(scenes))

export_scenes(b) == Elem("Scenes", NoAttrs, ExportSceneNodes(b, HandlesOf(b, "Scene")))

\* the characters of the names the images of the scenes exported have
Chars(name) ==
    CASE name = "Tex" -> <<"T", "e", "x">>
      [] name = "My Tex.PNG" -> <<"M", "y", " ", "T", "e", "x", ".", "P", "N", "G">>
      [] name = "#" -> <<"#">>

\* c.isalpha() or c.isdigit() or c in ['_', '.'], for those characters
SafeChar(c) == c \notin {" ", "#"}

\* c.lower()
Lower(c) ==
    CASE c = "T" -> "t" [] c = "M" -> "m" [] c = "P" -> "p" [] c = "N" -> "n"
      [] c = "G" -> "g" [] OTHER -> c

LowerSeq(cs) == [i \in 1..Len(cs) |-> Lower(cs[i])]

\* s.endswith(suffix)
EndsWith(cs, suffix) ==
    /\ Len(cs) >= Len(suffix)
    /\ SubSeq(cs, Len(cs) - Len(suffix) + 1, Len(cs)) = suffix

\* line 386: the suffixes of an image file
Extensions == {<<".", "p", "n", "g">>, <<".", "j", "p", "g">>, <<".", "j", "p", "e", "g">>}

\* "".join(cs)
RECURSIVE Concat(_)
Concat(cs) == IF cs = <<>> THEN "" ELSE Head(cs) \o Concat(Tail(cs))

\* lines 386-387
WithExtension(cs) ==
    IF \E suffix \in Extensions : EndsWith(LowerSeq(cs), suffix) THEN cs
    ELSE cs \o <<".", "p", "n", "g">>

\* lines 384-385
OrTexture(cs) == IF cs = <<>> THEN <<"T", "e", "x", "t", "u", "r", "e">> ELSE cs

\* lines 381-387: safe_name; no space is left for rstrip to take off
SafeName(name) == Concat(WithExtension(OrTexture(SelectSeq(Chars(name), SafeChar))))

\* export.py _export_image_file(img, xml_node): saved tells whether
\* save_render wrote the file or raised, in which case line 391 is not
\* reached
export_image_file(xml_node, name, saved) ==
    IF saved THEN [xml_node EXCEPT !.a.filepath = <<"textures", SafeName(name)>>]
    ELSE xml_node

\* lines 295-299: the Image elements of the images not yet reached
RECURSIVE ExportImages(_, _, _)
ExportImages(b, hs, saved) ==
    IF hs = <<>> THEN <<>>
    ELSE <<export_image_file(write_rna_properties(Elem("Image", NoAttrs, <<>>), b, Head(hs)),
                             Ent(b, Head(hs)).name, saved)>>
         \o ExportImages(b, Tail(hs), saved)

\* line 296: the images that are exported
Exported(b) == SelectSeq(HandlesOf(b, "Image"), LAMBDA h : Ent(b, h).type = "IMAGE")

\* line 390: the files of the textures directory once the images are saved
SavedFiles(b, saved) ==
    [f \in IF saved THEN {SafeName(Ent(b, Exported(b)[i]).name) : i \in 1..Len(Exported(b))}
            ELSE {} |-> [tex |-> "image", found |-> "none"]]

\* lines 313-326, 357-377: one element per entity of a library list
RECURSIVE ExportBlocks(_, _, _)
ExportBlocks(b, tag, hs) ==
    IF hs = <<>> THEN <<>>
    ELSE <<write_rna_properties(Elem(tag, NoAttrs, <<>>), b, Head(hs))>>
         \o ExportBlocks(b, tag, Tail(hs))

(***************************************************************************)
(* The shading graph of a material, export.py lines 174-286.  A node tree  *)
(* is its nodes in the order of tree.nodes, each with a name, a type, its  *)
(* bl_idname, a location, a label and the image bound to an image sampler  *)
(* ("None" for none), and its links in the order of tree.links, each from  *)
(* an output socket of node from to an input socket of node to.            *)
(***************************************************************************)
\* the attributes of the ShaderGraph, Node and Link elements
NoShaderAttrs ==
    [type |-> NoAttr, color_image |-> NoAttr, color_val |-> NoAttr,
     metallic_image |-> NoAttr, metallic_val |-> NoAttr,
     roughness_image |-> NoAttr, roughness_val |-> NoAttr,
     emission_image |-> NoAttr, emission_val |-> NoAttr,
     alpha_image |-> NoAttr, alpha_val |-> NoAttr,
     normal_image |-> NoAttr, normal_val |-> NoAttr]

\* the input sockets of a Principled BSDF with their default values
BsdfInputs ==
    [name \in {"Base Color", "Metallic", "Roughness", "Emission Color", "Alpha", "Normal"} |->
        CASE name = "Base Color" -> <<"0.8", "0.8", "0.8", "1.0">>
          [] name = "Metallic" -> <<"0.0">>
          [] name = "Roughness" -> <<"0.5">>
          [] name = "Emission Color" -> <<"0.0", "0.0", "0.0", "1.0">>
          [] name = "Alpha" -> <<"1.0">>
          [] name = "Normal" -> <<"0.0", "0.0", "0.0">>]

\* socket.links of the input socket sock of node n
LinksInto(tree, n, sock) ==
    SelectSeq(tree.links, LAMBDA l : l.to = n /\ l.to_socket = sock)

\* lines 174-210 on the node types of the trees of the model: the image of
\* the sampler that feeds the socket, through reroutes, "None" for none
RECURSIVE find_source_image(_, _, _, _)
find_source_image(tree, n, sock, visited) ==
    IF LinksInto(tree, n, sock) = <<>> THEN "None"
    ELSE IF Head(LinksInto(tree, n, sock)).from \in visited THEN "None"
    ELSE IF tree.nodes[Head(LinksInto(tree, n, sock)).from].type = "TEX_IMAGE"
    THEN tree.nodes[Head(LinksInto(tree, n, sock)).from].image
    ELSE IF tree.nodes[Head(LinksInto(tree, n, sock)).from].type = "REROUTE"
    THEN find_source_image(tree, Head(LinksInto(tree, n, sock)).from, "Input",
                           visited \cup {Head(LinksInto(tree, n, sock)).from})
    ELSE "None"

\* lines 252-270: export_socket(sock_name, xml_attr) on the node bsdf
export_socket(shader_node, tree, bsdf, sock_name, xml_attr) ==
    IF sock_name \notin DOMAIN BsdfInputs THEN shader_node
    ELSE [shader_node EXCEPT
            !.a[xml_attr \o "_image"] =
                IF find_source_image(tree, bsdf, sock_name, {}) # "None"
                THEN find_source_image(tree, bsdf, sock_name, {}) ELSE @,
            !.a[xml_attr \o "_val"] =
                IF LinksInto(tree, bsdf, sock_name) = <<>>
                THEN BsdfInputs[sock_name] ELSE @]

\* lines 272-279: the sockets summarised, with their attribute names
SummarySockets ==
    <<<<"Base Color", "color">>, <<"Metallic", "metallic">>, <<"Roughness", "roughness">>,
      <<IF "Emission Color" \in DOMAIN BsdfInputs THEN "Emission Color" ELSE "Emission",
        "emission">>,
      <<"Alpha", "alpha">>, <<"Normal", "normal">>>>

RECURSIVE ExportSockets(_, _, _, _)
ExportSockets(shader_node, tree, bsdf, socks) ==
    IF socks = <<>> THEN shader_node
    ELSE ExportSockets(export_socket(shader_node, tree, bsdf, Head(socks)[1], Head(socks)[2]),
                       tree, bsdf, Tail(socks))

\* next((n for n in tree.nodes if ...), None): the first such node, 0 for None
FirstNode(tree, Test(_)) ==
    IF \E n \in 1..Len(tree.nodes) : Test(tree.nodes[n])
    THEN CHOOSE n \in 1..Len(tree.nodes) :
            Test(tree.nodes[n]) /\ \A m \in 1..(n - 1) : ~Test(tree.nodes[m])
    ELSE 0

IsBsdf(node) == node.type = "BSDF_PRINCIPLED"
IsSampler(node) == node.type = "TEX_IMAGE" /\ node.image # "None"

\* lines 247-282: the ShaderGraph element
ShaderGraph(tree) ==
    IF FirstNode(tree, IsBsdf) # 0
    THEN ExportSockets(Elem("ShaderGraph", [NoShaderAttrs EXCEPT !.type = "PRINCIPLED"], <<>>),
                       tree, FirstNode(tree, IsBsdf), SummarySockets)
    ELSE Elem("ShaderGraph",
              [NoShaderAttrs EXCEPT
                  !.type = "UNKNOWN",
                  !.color_image = IF FirstNode(tree, IsSampler) # 0
                                  THEN tree.nodes[FirstNode(tree, IsSampler)].image ELSE @],
              <<>>)

\* lines 220-231: the Node element of a node
NodeElem(node) ==
    Elem("Node",
         [name |-> node.name, type |-> node.bl_idname, loc |-> node.location,
          image |-> IF node.type = "TEX_IMAGE" /\ node.image # "None"
                    THEN node.image ELSE NoAttr,
          label |-> IF node.label # "" THEN node.label ELSE NoAttr],
         <<>>)

\* lines 233-239: the Link element of a link
LinkElem(tree, link) ==
    Elem("Link",
         [from_node |-> tree.nodes[link.from].name, from_socket |-> link.from_socket,
          to_node |-> tree.nodes[link.to].name, to_socket |-> link.to_socket],
         <<>>)

\* lines 212-240: the material element with its NodeGraph element
export_full_node_graph(tree, mat_node) ==
    IF ~tree.present THEN mat_node
    ELSE [mat_node EXCEPT !.ch = Append(@,
             Elem("NodeGraph", NoAttrs,
                  [n \in 1..Len(tree.nodes) |-> NodeElem(tree.nodes[n])]
                  \o [l \in 1..Len(tree.links) |-> LinkElem(tree, tree.links[l])]))]

\* line 285 with the graph written from two nodes on
MoreThanOneNode(tree) == Len(tree.nodes) >= 2

\* line 285: len(tree.nodes) > 2
MoreThanTwoNodes(tree) == Len(tree.nodes) > 2

\* lines 242-286: the material element with its ShaderGraph element and,
\* for a tree of more than two nodes, its NodeGraph element
export_material_nodes(tree, mat_node) ==
    IF ~tree.present THEN mat_node
    ELSE IF MoreThanTwoNodes(tree)
    THEN export_full_node_graph(tree, [mat_node EXCEPT !.ch = Append(@, ShaderGraph(tree))])
    ELSE [mat_node EXCEPT !.ch = Append(@, ShaderGraph(tree))]

\* lines 313-316: the Material elements
RECURSIVE ExportMaterials(_, _)
ExportMaterials(b, hs) ==
    IF hs = <<>> THEN <<>>
    ELSE <<export_material_nodes(Ent(b, Head(hs)).node_tree,
               write_rna_properties(Elem("Material", NoAttrs, <<>>), b, Head(hs)))>>
         \o ExportMaterials(b, Tail(hs))

\* lines 302-310: a Mesh element with its Geometry and MaterialSlots
RECURSIVE ExportMeshes(_, _)
ExportMeshes(b, hs) ==
    IF hs = <<>> THEN <<>>
    ELSE LET m_node == write_rna_properties(Elem("Mesh", NoAttrs, <<>>), b, Head(hs))
         IN  <<[m_node EXCEPT !.ch = @ \o
                   <<Elem("Geometry", NoAttrs,
                          <<Elem("Vertices", NoAttrs, <<>>), Elem("Polygons", NoAttrs, <<>>)>>),
                     Elem("MaterialSlots", NoAttrs, <<>>)>>]>>
             \o ExportMeshes(b, Tail(hs))

\* lines 340-355: the Bone elements of the pose bones of the armature object
ExportBones(bones) ==
    [k \in 1..Len(bones) |->
        Bone(bones[k].name,
             IF bones[k].parent # 0 THEN bones[bones[k].parent].name ELSE "")]

\* lines 329-355
RECURSIVE ExportArmatures(_, _)
ExportArmatures(b, hs) ==
    IF hs = <<>> THEN <<>>
    ELSE LET arm == Head(hs)
             a_node == write_rna_properties(Elem("ArmatureData", NoAttrs, <<>>), b, arm)
             used == \E i \in 1..Len(b.objects) : b.objects[i].data = arm
         IN  <<[a_node EXCEPT !.ch = Append(@, Elem("Bones", NoAttrs,
                     IF used THEN ExportBones(Ent(b, arm).bones) ELSE <<>>))]>>
             \o ExportArmatures(b, Tail(hs))

\* export.py _export_libraries(root): the Libraries element
export_libraries(b, saved) ==
    Elem("Libraries", NoAttrs,
         <<Elem("Images", NoAttrs, ExportImages(b, Exported(b), saved)),
           Elem("Meshes", NoAttrs, ExportMeshes(b, HandlesOf(b, "Mesh"))),
           Elem("Materials", NoAttrs, ExportMaterials(b, HandlesOf(b, "Material"))),
           Elem("Lights", NoAttrs, ExportBlocks(b, "Light", HandlesOf(b, "Light"))),
           Elem("Cameras", NoAttrs, ExportBlocks(b, "Camera", HandlesOf(b, "Camera"))),
           Elem("Armatures", NoAttrs, ExportArmatures(b, HandlesOf(b, "Armature"))),
           Elem("Actions", NoAttrs, ExportBlocks(b, "Action", HandlesOf(b, "Action")))>>)

(***************************************************************************)
(* export() followed by importFromXML() on the file written: lines 27-29   *)
(* of export.py as two actions, then the importer's.                       *)
(***************************************************************************)
\* line 28
ExportLibraries ==
    /\ ipc = "export"
    /\ \E saved \in BOOLEAN :
          /\ doc' = Elem("BlenderData", NoAttrs, <<export_libraries(bpy, saved)>>)
          /\ files' = SavedFiles(bpy, saved)
    /\ ipc' = "export_scenes"
    /\ UNCHANGED <<blend, bpy, HIERARCHY_MAP, hmorder, DEFERRED_LINKS, DEFERRED_POSES,
                   DEFERRED_ACTIONS, warned, looked, codecVars, findVars>>

\* line 29; the file is then written and handed to the importer
ExportScenes ==
    /\ ipc = "export_scenes"
    /\ doc' = [doc EXCEPT !.ch = Append(@, export_scenes(bpy))]
    /\ ipc' = "clean"
    /\ UNCHANGED <<blend, bpy, HIERARCHY_MAP, hmorder, DEFERRED_LINKS, DEFERRED_POSES,
                   DEFERRED_ACTIONS, files, warned, looked, codecVars, findVars>>

NextRoundTrip ==
    \/ ExportLibraries
    \/ ExportScenes
    \/ NextImport

\* the data blocks of the scenes exported: one of every kind, the skeleton
\* of two bones
SourceLibrary ==
    [EmptyBpy EXCEPT
        !.images = <<[NewID("Tex", "IMAGE", NoneH)
                         EXCEPT !.attrs.filepath = PyStr(<<"//orig.png">>)]>>,
        !.meshes = <<NewID("Cube", "MESH", NoneH)>>,
        !.materials = <<NewID("Mat", "MATERIAL", NoneH)>>,
        !.lights = <<NewID("Lamp", "POINT", NoneH)>>,
        !.cameras = <<NewID("Cam", "PERSP", NoneH)>>,
        !.armatures = <<[NewID("Rig", "ARMATURE", NoneH) EXCEPT
                            !.bones = <<[name |-> "Root", parent |-> 0],
                                        [name |-> "Child", parent |-> 1]>>]>>,
        !.actions = <<NewID("Act", "ACTION", NoneH)>>,
        !.scenes = <<NewID("Scene", "SCENE", NoneH)>>]

\* the pose bones of the skeleton instances among objects i..n
RECURSIVE SourcePoseBones(_, _)
SourcePoseBones(b, i) ==
    IF i > Len(b.objects) THEN <<>>
    ELSE (IF b.objects[i].type = "ARMATURE"
          THEN PoseBonesOf(Ent(b, b.objects[i].data).bones, H("Object", i)) ELSE <<>>)
         \o SourcePoseBones(b, i + 1)

\* a scene of n objects, object i a child of object up[i] < i (0: none) and
\* an instance of the data block data[i], all in one collection; own tells
\* whether the first skeleton instance bears the name of its skeleton
SourceGraph(n, up, data, collection, own) ==
    LET first(i) == /\ data[i] = "Rig"
                    /\ \A j \in 1..(i - 1) : data[j] # "Rig"
        objects == [i \in 1..n |->
                       [NewID(IF own /\ first(i) THEN "Rig" ELSE ObName(i),
                              TypeOfData(DataBlockOf(SourceLibrary, data[i])),
                              DataBlockOf(SourceLibrary, data[i]))
                        EXCEPT !.parent = IF up[i] = 0 THEN NoneH ELSE H("Object", up[i]),
                               !.cols = {collection}]]
        b == [SourceLibrary EXCEPT !.objects = objects,
                                   !.collections = {"Scene Collection", collection}]
    IN  [b EXCEPT !.posebones = SourcePoseBones(b, 1)]

\* the names of the image of the scenes exported
ImageNames == {"Tex", "My Tex.PNG", "#"}

InitRoundTrip ==
    /\ CodecIdle
    /\ FindIdle
    /\ \E n \in 1..MaxInstances : \E up \in Shapes(n), data \in [1..n -> DataNames],
                                collection \in {"Scene Collection", "Sub"}, own \in BOOLEAN :
          /\ \E image \in ImageNames :
                bpy = [SourceGraph(n, up, data, collection, own)
                          EXCEPT !.images[1].name = image]
          /\ blend = bpy
    /\ doc = NoElem
    /\ ipc = "export"
    /\ HIERARCHY_MAP = EmptyMap
    /\ hmorder = <<>>
    /\ DEFERRED_LINKS = <<>>
    /\ DEFERRED_POSES = <<>>
    /\ DEFERRED_ACTIONS = <<>>
    /\ files = NoFiles
    /\ warned = <<>>
    /\ looked = -1

SpecRoundTrip == InitRoundTrip /\ [][NextRoundTrip]_vars

(***************************************************************************)
(* The Materials section of export(): one material whose node tree has up  *)
(* to MaxTreeNodes nodes, each a Principled BSDF, an image sampler with or *)
(* without an image or a reroute, whose first input is unlinked or linked  *)
(* from the node before or the node after it in the tree.                  *)
(***************************************************************************)
NodeKinds == {"BSDF", "TEX", "TEX0", "REROUTE"}

\* node k of the tree
TreeNode(k, kind) ==
    [name |-> "N" \o ToString(k),
     type |-> CASE kind = "BSDF" -> "BSDF_PRINCIPLED"
                [] kind = "REROUTE" -> "REROUTE"
                [] OTHER -> "TEX_IMAGE",
     bl_idname |-> CASE kind = "BSDF" -> "ShaderNodeBsdfPrincipled"
                     [] kind = "REROUTE" -> "NodeReroute"
                     [] OTHER -> "ShaderNodeTexImage",
     location |-> <<ToString(k) \o "00.0", "0.0">>,
     label |-> IF kind = "REROUTE" THEN "via" ELSE "",
     image |-> IF kind = "TEX" THEN "Tex" ELSE "None"]

OutputOf(node) ==
    CASE node.type = "BSDF_PRINCIPLED" -> "BSDF"
      [] node.type = "REROUTE" -> "Output"
      [] OTHER -> "Color"

FirstInputOf(node) ==
    CASE node.type = "BSDF_PRINCIPLED" -> "Base Color"
      [] node.type = "REROUTE" -> "Input"
      [] OTHER -> "Vector"

\* the links of the tree: fed[k] is -1 for the node before k, 1 for the
\* node after it, 0 for no link into k
TreeLinks(nodes, fed) ==
    LET n == Len(nodes)
        From(k) == ((k - 1 + fed[k] + n) % n) + 1
        linked == SelectSeq([k \in 1..n |-> k], LAMBDA k : fed[k] # 0)
    IN  [i \in 1..Len(linked) |->
            [from |-> From(linked[i]), from_socket |-> OutputOf(nodes[From(linked[i])]),
             to |-> linked[i], to_socket |-> FirstInputOf(nodes[linked[i]])]]

\* the tree of the nodes of these kinds, fed in this way
Tree(nodes, fed) == [present |-> TRUE, nodes |-> nodes, links |-> TreeLinks(nodes, fed)]

\* the registry that holds one material, with this node tree
WithTree(tree) ==
    [EmptyBpy EXCEPT
        !.materials = <<[NewID("Mat", "MATERIAL", NoneH) EXCEPT !.node_tree = tree]>>]

InitShading ==
    /\ CodecIdle
    /\ FindIdle
    /\ \/ bpy = WithTree(NoTree)
       \/ \E n \in 0..MaxTreeNodes :
             \E kinds \in [1..n -> NodeKinds], fed \in [1..n -> {-1, 0, 1}] :
                bpy = WithTree(Tree([k \in 1..n |-> TreeNode(k, kinds[k])], fed))
    /\ blend = bpy
    /\ doc = NoElem
    /\ ipc = "export_materials"
    /\ HIERARCHY_MAP = EmptyMap
    /\ hmorder = <<>>
    /\ DEFERRED_LINKS = <<>>
    /\ DEFERRED_POSES = <<>>
    /\ DEFERRED_ACTIONS = <<>>
    /\ files = NoFiles
    /\ warned = <<>>
    /\ looked = -1

\* lines 312-316
ExportMaterialsSection ==
    /\ ipc = "export_materials"
    /\ doc' = Elem("Materials", NoAttrs, ExportMaterials(bpy, HandlesOf(bpy, "Material")))
    /\ ipc' = "exported"
    /\ UNCHANGED <<blend, bpy, HIERARCHY_MAP, hmorder, DEFERRED_LINKS, DEFERRED_POSES,
                   DEFERRED_ACTIONS, files, warned, looked, codecVars, findVars>>

NextShading == ExportMaterialsSection

SpecShading == InitShading /\ [][NextShading]_vars

(***************************************************************************)
(* Skeletons of up to MaxBones bones in every declaration order.           *)
(***************************************************************************)
BoneName(i) == "B" \o ToString(i)

\* the parent_name attribute of a Bone element: absent, empty, a name that
\* no bone has, or the name of the bone declared in place p
ParentNameOf(p) ==
    CASE p = -2 -> NoAttr
      [] p = -1 -> "Ghost"
      [] p = 0 -> ""
      [] OTHER -> BoneName(p)

\* following the parents from bone i ends within steps bones
RECURSIVE EndsWithin(_, _, _)
EndsWithin(par, i, steps) ==
    IF par[i] <= 0 THEN TRUE
    ELSE IF steps = 0 THEN FALSE
    ELSE EndsWithin(par, par[i], steps - 1)

\* the parent names of n bones that describe a tree or a forest
BoneTrees(n) ==
    {par \in [1..n -> (-2)..n] : \A i \in 1..n : EndsWithin(par, i, n)}

BoneDoc(n, par) ==
    Root(LibrariesWith(<<ArmatureData("Rig",
                            [i \in 1..n |-> Bone(BoneName(i), ParentNameOf(par[i]))])>>),
         Placed(<<ObjectElem("Ob1", "Rig", <<>>, <<>>)>>, FALSE), TRUE)

\* a POINTER Prop that names target, none when target is absent
PointerProp(name, target) ==
    IF target = NoAttr THEN <<>> ELSE <<Prop(name, "POINTER", <<target>>, NoAttr)>>

\* two instances, the first naming its parent, its material and the object
\* of its modifier: an instance of the document, a data block of the
\* library, itself, or a name that nothing has ("Ghost")
LinkDoc(parent, material, object, mode) ==
    Root(FixedLibraries,
         Placed(<<ObjectElem("Ob1", "Cube",
                     PointerProp("parent", parent) \o PointerProp("active_material", material)
                         \o <<Prop("rotation_mode", "STRING", <<mode>>, NoAttr)>>,
                     IF object = NoAttr THEN <<>>
                     ELSE <<Elem("Modifiers", NoAttrs,
                               <<Modifier("Mod", "ARMATURE", PointerProp("object", object))>>)>>),
                  ObjectElem("Ob2", "Cube", <<>>, <<>>)>>, FALSE),
         TRUE)

\* the paths an Image element names: none, the empty one, a file in the
\* textures directory and a file beside the document
ImagePaths == {NoPath, <<>>, <<"textures", "Im.png">>, <<"Im.png">>}

ImageElem(name, filepath) ==
    Elem("Image", [NoAttrs EXCEPT !.name = name, !.filepath = filepath], <<Properties(<<>>)>>)

ImageLibraries(images) ==
    Elem("Libraries", NoAttrs,
         <<Elem("Images", NoAttrs, images),
           Elem("Meshes", NoAttrs, <<Block("Mesh", "Cube")>>),
           Elem("Materials", NoAttrs, <<Block("Material", "Mat")>>)>>)

\* a document of n images Im1 .. Imn (the first without a name when it is
\* not named) and one object
ImageDoc(n, paths, named) ==
    Root(ImageLibraries([i \in 1..n |->
                            ImageElem(IF i = 1 /\ ~named THEN NoAttr
                                      ELSE "Im" \o ToString(i), paths[i])]),
         Placed(<<ObjectElem("Ob1", "Cube", <<>>, <<>>)>>, FALSE), TRUE)

\* an instance of the skeleton with the pose of its bones: the bone Root
\* has a custom shape (a POINTER record) when shape is a name, the bone
\* Child a location when moved; a second instance is a mesh
PoseDoc(shape, moved, material) ==
    Root(FixedLibraries,
         Placed(<<ObjectElem("Ob1", "Rig", <<>>,
                     <<Elem("Pose", NoAttrs,
                         <<Named("HBone", "Root",
                                 <<Properties(PointerProp("custom_shape", shape))>>),
                           Named("HBone", "Child",
                                 <<Properties(IF moved
                                     THEN <<Prop("location", "FLOAT",
                                                 <<"1.0", "2.0", "0.5">>, "VECTOR")>>
                                     ELSE <<>>)>>)>>)>>),
                  ObjectElem("Ob2", "Cube", PointerProp("active_material", material), <<>>)>>,
                FALSE),
         TRUE)

\* a document with work for every phase: a mesh instance with a location
\* and a material, then an instance of the skeleton with a location, a
\* parent, a pose and an active clip (that of the library or a name that no
\* clip has)
PhaseDoc(clip) ==
    Root(FixedLibraries,
         Placed(<<ObjectElem("Ob2", "Cube",
                      <<Prop("location", "FLOAT", <<"0.0", "0.0", "0.0">>, "VECTOR")>>
                          \o PointerProp("active_material", "Mat"),
                      <<>>),
                  [ObjectElem("Ob1", "Rig",
                       <<Prop("location", "FLOAT", <<"1.0", "2.0", "0.5">>, "VECTOR"),
                         Prop("parent", "POINTER", <<"Ob2">>, NoAttr)>>,
                       <<Elem("Pose", NoAttrs,
                           <<Named("HBone", "Root",
                                   <<Properties(PointerProp("custom_shape", "Ob2"))>>),
                             Named("HBone", "Child",
                                   <<Properties(<<Prop("location", "FLOAT",
                                                       <<"1.0", "2.0", "0.5">>, "VECTOR")>>)>>)>>)>>)
                      EXCEPT !.a.active_action = clip]>>,
                FALSE),
         TRUE)

\* an instance whose material and whose modifier's object are names that
\* entities of several kinds bear: Mat is a material and the second
\* instance, Rig a skeleton and the instance made with it
SharedDoc(material, object) ==
    Root(FixedLibraries,
         Placed(<<ObjectElem("Ob1", "Cube", PointerProp("active_material", material),
                     <<Elem("Modifiers", NoAttrs,
                           <<Modifier("Mod", "ARMATURE", PointerProp("object", object))>>)>>),
                  ObjectElem("Mat", "Cube", <<>>, <<>>)>>, FALSE),
         TRUE)

\* a document whose mesh has geometry and one material slot, which names
\* the material of the library or one that no Material element declares
SlotDoc(slot) ==
    Root(Elem("Libraries", NoAttrs,
              <<Elem("Materials", NoAttrs, <<Block("Material", "Mat")>>),
                Elem("Meshes", NoAttrs,
                     <<Named("Mesh", "Cube",
                             <<Properties(<<>>),
                               Elem("Geometry", NoAttrs,
                                    <<Elem("Vertices", NoAttrs, <<>>),
                                      Elem("Polygons", NoAttrs, <<>>)>>),
                               Elem("MaterialSlots", NoAttrs, <<Named("Slot", slot, <<>>)>>)>>)>>),
                Elem("Lights", NoAttrs, <<Block("Light", "Lamp")>>)>>),
         Placed(<<ObjectElem("Ob1", "Cube", <<>>, <<>>)>>, FALSE), TRUE)

\* a document without its Libraries section, without its Scenes section or
\* without both
SectionDoc(hasLibraries, hasScenes) ==
    Elem("BlenderData", NoAttrs,
         (IF hasLibraries THEN <<FixedLibraries>> ELSE <<>>)
         \o (IF hasScenes
             THEN <<Placed(<<ObjectElem("Ob1", "Cube",
                               <<Prop("location", "FLOAT", <<"1.0", "2.0", "0.5">>, "VECTOR")>>,
                               <<>>)>>, FALSE)>>
             ELSE <<>>))

InitImport ==
    /\ CodecIdle
    /\ FindIdle
    /\ \/ \E n \in 1..MaxImages : \E paths \in [1..n -> ImagePaths], named \in BOOLEAN,
                                     tex \in FileStates, found \in FileStates :
             /\ doc = ImageDoc(n, paths, named)
             /\ files = [f \in {"Im.png"} |-> [tex |-> tex, found |-> found]]
       \/ /\ files = NoFiles
          /\ \/ \E ps \in PropSeqs :
                   doc = Root(FixedLibraries, Placed(<<ObjectElem("Ob1", "Cube", ps, <<>>)>>, FALSE), TRUE)
             \/ \E n \in 1..MaxObjs : \E up \in Shapes(n), data \in [1..n -> DataNames],
                                         variant \in Variants :
                   /\ \A i \in 2..n : data[i] # "Cam"    \* a camera is the first object
                   /\ doc = TreeDoc(n, up, data, variant)
             \/ \E first \in 1..2, data \in [1..2 -> DataNames],
                   par \in [1..2 -> BOOLEAN], mod \in [1..2 -> BOOLEAN] :
                   /\ ~(par[1] /\ par[2])
                   /\ doc = RefDoc(first, data, par, mod)
             \/ \E n \in 1..MaxBones : \E par \in BoneTrees(n) : doc = BoneDoc(n, par)
             \/ \E parent \in {NoAttr, "Ghost", "Ob1", "Ob2"}, material \in {NoAttr, "Ghost", "Mat"},
                   object \in {NoAttr, "Ghost", "Ob2"}, mode \in {"XYZ", "BOGUS"} :
                   doc = LinkDoc(parent, material, object, mode)
             \/ \E hasLibraries, hasScenes \in BOOLEAN :
                   /\ ~(hasLibraries /\ hasScenes)
                   /\ doc = SectionDoc(hasLibraries, hasScenes)
             \/ \E slot \in {"Mat", "Ghost"} : doc = SlotDoc(slot)
             \/ \E material \in {"Mat", "Rig"}, object \in {"Mat", "Rig"} :
                   doc = SharedDoc(material, object)
             \/ \E clip \in {"Act", "Ghost"} : doc = PhaseDoc(clip)
             \/ \E shape \in {NoAttr, "Ghost", "Ob2"}, moved \in BOOLEAN,
                   material \in {NoAttr, "Mat"} :
                   doc = PoseDoc(shape, moved, material)
    /\ blend = <<>>
    /\ ipc = "clean"
    /\ bpy = [EmptyBpy EXCEPT !.scenes = <<NewID("Scene", "SCENE", NoneH)>>,
                              !.collections = {"Scene Collection", "Collection"}]
    /\ HIERARCHY_MAP = EmptyMap
    /\ hmorder = <<>>
    /\ DEFERRED_LINKS = <<>>
    /\ DEFERRED_POSES = <<>>
    /\ DEFERRED_ACTIONS = <<>>
    /\ warned = <<>>
    /\ looked = -1

SpecImport == InitImport /\ [][NextImport]_vars

PhaseOneDone == ipc \in {"hierarchy", "links", "poses", "actions", "done"}
PhaseTwoDone == ipc \in {"poses", "actions", "done"}

ObjectHandles == {H("Object", i) : i \in 1..Len(bpy.objects)}

\* C2: an instance for which a world matrix is recorded has, after
\* resolve_hierarchy, been assigned that matrix and none of the local
\* components, whatever the order of its Prop elements; local components
\* are assigned only when no world matrix is recorded.
C2_WorldMatrixWins ==
    PhaseTwoDone =>
        \A obj \in ObjectHandles \cap DOMAIN HIERARCHY_MAP :
            LET data == HIERARCHY_MAP[obj]
                attrs == Ent(bpy, obj).attrs
            IN  /\ data.world_matrix # PyNone => \A n \in LocalProps : attrs[n] = Unset
                /\ data.world_matrix[1] = "Matrix" => attrs["matrix_world"] = data.world_matrix
                /\ (\E n \in LocalProps : attrs[n] # Unset) =>
                      /\ data.world_matrix = PyNone
                      /\ \A n \in LocalProps : attrs[n] # Unset =>
                            \E k \in 1..Len(data.transforms) : data.transforms[k] = <<n, attrs[n]>>

\* a local component recorded before the world matrix, and yet not assigned
C2_Witness ==
    /\ ipc = "done"
    /\ \E obj \in ObjectHandles \cap DOMAIN HIERARCHY_MAP :
          /\ HIERARCHY_MAP[obj].world_matrix # PyNone
          /\ HIERARCHY_MAP[obj].transforms # <<>>
          /\ Ent(bpy, obj).attrs["matrix_world"] = HIERARCHY_MAP[obj].world_matrix
          /\ Ent(bpy, obj).attrs["location"] = Unset

\* the Object elements at any depth under the Collections of the Scenes
SceneObjects(root) ==
    IterSeq(IterSeq(FindAll(Find(root, "Scenes"), "Scene"), "Collection"), "Object")

\* the object made for an Object element: the one of its name, or the one
\* made together with the skeleton it names
InstanceOf(e, i) ==
    \/ bpy.objects[i].name = e.a.name
    \/ /\ IsSet(e.a.data_name)
       /\ GetByName(bpy, "Armature", e.a.data_name) # NoneH
       /\ bpy.objects[i].data = GetByName(bpy, "Armature", e.a.data_name)

\* C4: after Phase 1 every Object element under a Collection of a Scene, at
\* any depth and sibling position, has an instance with a Hierarchy Record.
C4_EveryObjectCreated ==
    PhaseOneDone =>
        \A k \in 1..Len(SceneObjects(doc)) :
            \E i \in 1..Len(bpy.objects) :
                /\ InstanceOf(SceneObjects(doc)[k], i)
                /\ H("Object", i) \in DOMAIN HIERARCHY_MAP

\* the names of the Mesh entries of the Libraries section
MeshNames(root) ==
    {m.a.name : m \in {FindAll(Find(Find(root, "Libraries"), "Meshes"), "Mesh")[k] :
                          k \in 1..Len(FindAll(Find(Find(root, "Libraries"), "Meshes"), "Mesh"))}}

\* C5: after import every instance that names a mesh of the library exists
\* and has that mesh as its data block, wherever the Scenes and Libraries
\* sections stand in the document.
C5_MeshBound ==
    ipc = "done" =>
        \A k \in 1..Len(SceneObjects(doc)) :
            LET e == SceneObjects(doc)[k]
            IN  e.a.data_name \in MeshNames(doc) =>
                    \E i \in 1..Len(bpy.objects) :
                        /\ bpy.objects[i].name = e.a.name
                        /\ bpy.objects[i].data # NoneH
                        /\ bpy.objects[i].data = GetByName(bpy, "Mesh", e.a.data_name)

\* importFromXML lines 694-716 run in one piece on a document
ImportAll(st, root) ==
    LET s1 == clean_scene(st)
        s2 == import_libraries(s1, root)
        scenes == Find(root, "Scenes")
        s3 == IF s2.raised THEN s2
              ELSE IF ElemTrue(scenes) THEN ImportScenes(s2, FindAll(scenes, "Scene")) ELSE s2
        s4 == IF s3.raised THEN s3 ELSE resolve_hierarchy(s3)
        s5 == IF s4.raised THEN s4 ELSE resolve_links(s4, s4.links)
        s6 == IF s5.raised THEN s5 ELSE apply_deferred_poses(s5, s5.poses)
    IN  IF s6.raised THEN s6 ELSE apply_deferred_actions(s6, s6.acts)

\* the entities of a registry by kind, name and owner's name
Entities(b) ==
    UNION {{<<kind, b[CollOf(kind)][i].name,
              IF kind \in {"Modifier", "PoseBone"} THEN NameOf(b, b[CollOf(kind)][i].data)
              ELSE "<none>">> :
            i \in 1..Len(b[CollOf(kind)])} : kind \in Kinds}

\* the parent of every object, by name
ParentLinks(b) ==
    {<<b.objects[i].name, NameOf(b, b.objects[i].parent)>> : i \in 1..Len(b.objects)}

\* the entity every pointer attribute names, by name
PointerLinks(b) ==
    UNION {{<<kind, b[CollOf(kind)][i].name, NameOf(b, b[CollOf(kind)][i].data), n,
              NameOf(b, b[CollOf(kind)][i].attrs[n])>> :
            i \in {j \in 1..Len(b[CollOf(kind)]) : b[CollOf(kind)][j].attrs[n] # Unset}} :
          kind \in {"Object", "Modifier"}, n \in {"object", "active_material"}}

Registry(b) == <<Entities(b), ParentLinks(b), PointerLinks(b)>>

\* the indices of the Object elements among the children of an element
ObjectsAt(e) == {i \in 1..Len(e.ch) : e.ch[i].tag = "Object"}

Least(S) == CHOOSE i \in S : \A j \in S : i <= j

\* the document with the first two sibling Object elements of every
\* Collection declared in the other order
RECURSIVE SwapSiblings(_)
SwapSiblings(e) ==
    IF e.tag = "Collection" /\ Cardinality(ObjectsAt(e)) >= 2
    THEN LET p == Least(ObjectsAt(e))
             q == Least(ObjectsAt(e) \ {p})
         IN  [e EXCEPT !.ch = [i \in 1..Len(e.ch) |->
                                  IF i = p THEN e.ch[q] ELSE IF i = q THEN e.ch[p] ELSE e.ch[i]]]
    ELSE [e EXCEPT !.ch = [i \in 1..Len(e.ch) |-> SwapSiblings(e.ch[i])]]

\* element x holds a POINTER Prop, its own or of a modifier, that names y
References(x, y) ==
    \E k \in 1..Len(Iter(x, "Prop")) :
        /\ Iter(x, "Prop")[k].a.type = "POINTER"
        /\ Iter(x, "Prop")[k].a.value = <<y.a.name>>

\* the first two sibling Object elements of a Collection name each other
MutualSiblings(root) ==
    \E k \in 1..Len(Iter(root, "Collection")) :
        LET e == Iter(root, "Collection")[k]
        IN  /\ Cardinality(ObjectsAt(e)) >= 2
            /\ LET p == Least(ObjectsAt(e))
                   q == Least(ObjectsAt(e) \ {p})
               IN  References(e.ch[p], e.ch[q]) /\ References(e.ch[q], e.ch[p])

FreshSt == [b |-> EmptyBpy, hm |-> EmptyMap, order |-> <<>>, links |-> <<>>,
            poses |-> <<>>, acts |-> <<>>, raised |-> FALSE,
            files |-> files, warned |-> <<>>, looked |-> -1]

\* C3: a document in which two sibling Object elements name each other
\* gives, once imported, the same entities, parents and pointer links as
\* the document with the two elements declared in the other order.
C3_OrderIndependent ==
    (ipc = "done" /\ MutualSiblings(doc)) =>
        LET other == ImportAll(FreshSt, SwapSiblings(doc))
        IN  ~other.raised /\ Registry(bpy) = Registry(other.b)

\* C7: once a scene has been exported and the file imported, the registry
\* holds, for every instance of the exported scene, an instance of the same
\* name whose parent has the name of the exported instance's parent.
C7_NamesAndParents ==
    ipc = "done" =>
        \A i \in 1..Len(blend.objects) :
            \E j \in 1..Len(bpy.objects) :
                /\ bpy.objects[j].name = blend.objects[i].name
                /\ NameOf(bpy, bpy.objects[j].parent) = NameOf(blend, blend.objects[i].parent)

\* the Bone elements of the skeleton of a document
BoneNodes(root, k) ==
    Iter(Find(ListOf(Find(root, "Libraries"), "Armatures", "ArmatureData")[k], "Bones"), "Bone")

\* the index of the bone of a name in a joint tree, 0 if there is none
BoneIndex(bones, name) ==
    IF \E i \in 1..Len(bones) : bones[i].name = name
    THEN CHOOSE i \in 1..Len(bones) : bones[i].name = name
    ELSE 0

\* C6: a skeleton whose Bone elements have distinct names is rebuilt with
\* every bone parented to the bone that its parent_name names, whether that
\* bone is declared before or after it, and with no parent when the name is
\* absent, empty or declared nowhere in the list.
C6_BoneParents ==
    ipc \in {"scenes", "hierarchy", "links", "poses", "actions", "done"} =>
        \A k \in 1..Len(ListOf(Find(doc, "Libraries"), "Armatures", "ArmatureData")) :
            LET nodes == BoneNodes(doc, k)
                arm == GetByName(bpy, "Armature",
                           ListOf(Find(doc, "Libraries"), "Armatures", "ArmatureData")[k].a.name)
                bones == Ent(bpy, arm).bones
            IN  (\A i, j \in 1..Len(nodes) : nodes[i].a.name = nodes[j].a.name => i = j) =>
                    /\ arm # NoneH
                    /\ Len(bones) = Len(nodes)
                    /\ \A i \in 1..Len(nodes) :
                          LET me == BoneIndex(bones, nodes[i].a.name)
                              declared == \E j \in 1..Len(nodes) :
                                              nodes[j].a.name = nodes[i].a.parent_name
                          IN  /\ me # 0
                              /\ bones[me].parent =
                                     IF declared THEN BoneIndex(bones, nodes[i].a.parent_name)
                                     ELSE 0

\* a bone declared before the bone that became its parent
C6_Witness ==
    /\ ipc = "done"
    /\ Len(bpy.armatures) >= 1
    /\ BoneNodes(doc, 1) # <<>>
    /\ \E i \in 1..Len(bpy.armatures[1].bones) :
          /\ bpy.armatures[1].bones[i].parent > i
          /\ BoneNodes(doc, 1)[i].a.parent_name = bpy.armatures[1].bones[bpy.armatures[1].bones[i].parent].name

\* C11: when the root element has no Libraries section or no Scenes section
\* the run is aborted: neither resolve_hierarchy nor any later function of
\* importFromXML has run.
C11_MissingSectionFatal ==
    (Find(doc, "Libraries") = NoElem \/ Find(doc, "Scenes") = NoElem) =>
        ipc \notin {"links", "poses", "actions", "done"}

\* the parent recorded for every instance is a name or None, so that no
\* lookup of resolve_hierarchy can raise
ParentsAreNames ==
    \A h \in DOMAIN HIERARCHY_MAP : HIERARCHY_MAP[h].parent[1] \in {"None", "str"}

\* C12: an assignment that the entity refuses is never fatal in Phase 2:
\* resolve_hierarchy, run on records whose values the instance may refuse
\* (rotation mode, attachment mode, attachment point, inverse offset, world
\* matrix, local components), always hands over to resolve_links.
C12_AssignmentNeverFatal ==
    [][(ipc = "hierarchy" /\ ParentsAreNames) => ipc' = "links"]_vars

\* the parent name recorded for the instance obj is found in no registry
DanglingParent(obj) ==
    /\ HIERARCHY_MAP[obj].parent[1] = "str"
    /\ Truthy(HIERARCHY_MAP[obj].parent)
    /\ \A i \in 1..Len(bpy.objects) :
          bpy.objects[i].name # TextStr(HIERARCHY_MAP[obj].parent[2])

\* the Deferred Link link names a target found in no registry
DanglingLink(link) ==
    /\ link[3][1] = "str"
    /\ \A kind \in Kinds \ {"Modifier", "Scene", "PoseBone"} :
          \A i \in 1..Len(bpy[CollOf(kind)]) :
              bpy[CollOf(kind)][i].name # TextStr(link[3][2])

\* the instance obj refuses a value that resolve_hierarchy assigns to it
\* outside a try block (C12)
Refuses(obj) ==
    \/ /\ HIERARCHY_MAP[obj].rotation_mode # PyNone
       /\ ~Settable("Object", "rotation_mode", HIERARCHY_MAP[obj].rotation_mode)
    \/ /\ Truthy(HIERARCHY_MAP[obj].parent)
       /\ ~DanglingParent(obj)
       /\ \/ Truthy(HIERARCHY_MAP[obj].type)
             /\ ~Settable("Object", "parent_type", HIERARCHY_MAP[obj].type)
          \/ Truthy(HIERARCHY_MAP[obj].bone)
             /\ ~Settable("Object", "parent_bone", HIERARCHY_MAP[obj].bone)
          \/ Truthy(HIERARCHY_MAP[obj].inv)
             /\ ~Settable("Object", "matrix_parent_inverse", HIERARCHY_MAP[obj].inv)

\* the entities of the registry, kind by kind and name by name
SameEntities ==
    \A kind \in Kinds :
        /\ Len(bpy'[CollOf(kind)]) = Len(bpy[CollOf(kind)])
        /\ \A i \in 1..Len(bpy[CollOf(kind)]) :
              bpy'[CollOf(kind)][i].name = bpy[CollOf(kind)][i].name

\* a step of resolve_hierarchy or resolve_links passes over the names that
\* no registry holds: the parent and the attachment attributes of such an
\* instance, and the attribute of such a link, stay as they were, every
\* entity stays in the registry, and the function is not ended by the name
\* (resolve_hierarchy ends early only on a refused assignment, C12)
UnresolvedPassedOver ==
    /\ (ipc = "hierarchy" /\ ParentsAreNames) =>
          /\ \A obj \in ObjectHandles \cap DOMAIN HIERARCHY_MAP :
                DanglingParent(obj) =>
                    /\ Ent(bpy', obj).parent = Ent(bpy, obj).parent
                    /\ \A n \in {"parent_type", "parent_bone", "matrix_parent_inverse"} :
                          Ent(bpy', obj).attrs[n] = Ent(bpy, obj).attrs[n]
          /\ ipc' = "aborted" =>
                \E obj \in ObjectHandles \cap DOMAIN HIERARCHY_MAP : Refuses(obj)
          /\ SameEntities
    /\ (ipc = "links"
          /\ \A k \in 1..Len(DEFERRED_LINKS) : DEFERRED_LINKS[k][3][1] = "str") =>
          /\ \A k \in 1..Len(DEFERRED_LINKS) :
                (\A j \in 1..Len(DEFERRED_LINKS) :
                    (DEFERRED_LINKS[j][1] = DEFERRED_LINKS[k][1]
                       /\ DEFERRED_LINKS[j][2] = DEFERRED_LINKS[k][2])
                    => DanglingLink(DEFERRED_LINKS[j])) =>
                    Ent(bpy', DEFERRED_LINKS[k][1]).attrs[DEFERRED_LINKS[k][2]]
                        = Ent(bpy, DEFERRED_LINKS[k][1]).attrs[DEFERRED_LINKS[k][2]]
          /\ ipc' = "poses"
          /\ SameEntities

\* the step prints a warning for every name that no registry holds
UnresolvedWarned ==
    /\ (ipc = "hierarchy" /\ ParentsAreNames) =>
          \A obj \in ObjectHandles \cap DOMAIN HIERARCHY_MAP :
              DanglingParent(obj) =>
                  \E k \in (Len(warned) + 1)..Len(warned') :
                      warned'[k] = TextStr(HIERARCHY_MAP[obj].parent[2])
    /\ ipc = "links" =>
          \A j \in 1..Len(DEFERRED_LINKS) :
              DanglingLink(DEFERRED_LINKS[j]) =>
                  \E k \in (Len(warned) + 1)..Len(warned') :
                      warned'[k] = TextStr(DEFERRED_LINKS[j][3][2])

\* C13: a parent name or a link target that no registry holds is reported
\* by a warning and passed over: the parent or the link is left unset, the
\* owning entity stays in the registry and the import continues.
C13_UnresolvedGraceful ==
    [][UnresolvedPassedOver /\ UnresolvedWarned]_vars

\* the part of C13 that the importer keeps: names that no registry holds
\* are passed over
C13_PassedOver ==
    [][UnresolvedPassedOver]_vars

\* the Image elements of the document, in document order
ImageElems ==
    IF Find(doc, "Libraries") = NoElem THEN <<>>
    ELSE ListOf(Find(doc, "Libraries"), "Images", "Image")

\* the file an Image element names is there and loads, in the textures
\* directory or beside the document
HasLoadableFile(i_node) ==
    /\ i_node.a.filepath \notin {NoPath, <<>>}
    /\ \E f \in DOMAIN files :
          /\ f = i_node.a.filepath[Len(i_node.a.filepath)]
          /\ "image" \in {files[f].tex, files[f].found}

\* the image registry holds one image for every Image element, under the
\* element's name: the loaded file when there is one that loads, a generated
\* placeholder otherwise
ImagesHeld ==
    /\ Len(bpy.images) = Len(ImageElems)
    /\ \A k \in 1..Len(ImageElems) :
          /\ bpy.images[k].name = ImageElems[k].a.name
          /\ bpy.images[k].type = IF HasLoadableFile(ImageElems[k]) THEN "IMAGE" ELSE "UV_TEST"

ImagesNamed == \A k \in 1..Len(ImageElems) : ImageElems[k].a.name # NoAttr

\* C14: a missing or unloadable image file never aborts the import: after
\* the libraries step of a document whose Image elements are named, the
\* import goes on to the scenes and the image registry holds an image for
\* every Image element, loaded or placeholder.
C14_MissingImageNeverFatal ==
    [][(ipc = "libraries" /\ ImagesNamed /\ DOMAIN files # {})
           => (ipc' = "scenes" /\ ImagesHeld')]_vars

\* the import of a document went past an Image element whose file is there
\* but does not load, and past one that names no file
C14_Witness ==
    /\ ipc = "done"
    /\ ImagesNamed
    /\ Len(ImageElems) = 2
    /\ ImageElems[1].a.filepath = <<"textures", "Im.png">>
    /\ ImageElems[2].a.filepath = NoPath
    /\ DOMAIN files # {}
    /\ files["Im.png"].tex = "corrupt"
    /\ files["Im.png"].found = "none"
    /\ bpy.images[1].type = "UV_TEST"

\* a Prop element whose value parse_typed_value gives back as None
Undecodable(e) ==
    /\ e.tag = "Prop"
    /\ parse_typed_value(e.a.value, e.a.type, GetAttr(e, "structure_type", "")) = PyNone

\* the elements without the Prop elements that do not decode, at every depth
RECURSIVE StrippedSeq(_)
StrippedSeq(elems) ==
    IF elems = <<>> THEN <<>>
    ELSE (IF Undecodable(Head(elems)) THEN <<>>
          ELSE <<[Head(elems) EXCEPT !.ch = StrippedSeq(@)]>>)
             \o StrippedSeq(Tail(elems))

\* the document without its Prop records that do not decode
Stripped(root) == [root EXCEPT !.ch = StrippedSeq(@)]

\* an Object element of the document has a Prop record that does not decode
\* after another Prop record
HasUndecodable ==
    \E i \in 1..Len(Iter(doc, "Object")) :
        \E k \in 2..Len(FindAll(Find(Iter(doc, "Object")[i], "Properties"), "Prop")) :
            Undecodable(FindAll(Find(Iter(doc, "Object")[i], "Properties"), "Prop")[k])

\* C15: a Prop record whose value does not decode is treated as unset: the
\* scenes step leaves the entities, the Hierarchy Records and the Deferred
\* Link queue as it leaves them on the document without those records.
C15_UndecodableIsUnset ==
    [][(ipc = "scenes" /\ HasUndecodable)
           => /\ bpy' = ImportScenes(St, FindAll(Find(Stripped(doc), "Scenes"), "Scene")).b
              /\ HIERARCHY_MAP'
                     = ImportScenes(St, FindAll(Find(Stripped(doc), "Scenes"), "Scene")).hm
              /\ DEFERRED_LINKS'
                     = ImportScenes(St, FindAll(Find(Stripped(doc), "Scenes"), "Scene")).links]_vars

RotationProps == {"rotation_euler", "rotation_quaternion", "rotation_axis_angle"}

\* the rotation representation that matches a rotation mode
RotationOf(mode) ==
    IF mode = <<"QUATERNION">> THEN "rotation_quaternion"
    ELSE IF mode = <<"AXIS_ANGLE">> THEN "rotation_axis_angle"
    ELSE "rotation_euler"

\* the rotation mode a Properties element records: the value of its
\* rotation_mode record, which line 87 writes first, from the entity
ModeIn(props) == props[1].a.value

\* C16: every Properties element written by _write_rna_properties holds
\* rotation records only for the representation that matches the entity's
\* rotation mode, none for either of the other two.
C16_RotationExclusion ==
    (doc # NoElem /\ ipc # "export") =>
        \A i \in 1..Len(Iter(doc, "Properties")) :
            \A k \in 1..Len(FindAll(Iter(doc, "Properties")[i], "Prop")) :
                FindAll(Iter(doc, "Properties")[i], "Prop")[k].a.name \in RotationProps
                    => FindAll(Iter(doc, "Properties")[i], "Prop")[k].a.name
                           = RotationOf(ModeIn(FindAll(Iter(doc, "Properties")[i], "Prop")))

\* the Object nodes of the exported Scenes section that bear a name
ObjectNodes(name) ==
    SelectSeq(Iter(Find(doc, "Scenes"), "Object"), LAMBDA e : e.a.name = name)

\* C17: the exported Scenes section holds exactly one Object node for each
\* instance of the scene exported, none left out and none written twice.
C17_OneNodePerInstance ==
    (ipc \notin {"export", "export_scenes"} /\ Find(doc, "Scenes") # NoElem) =>
        \A i \in 1..Len(blend.objects) : Len(ObjectNodes(blend.objects[i].name)) = 1

\* "/".join(path)
RECURSIVE PathStr(_)
PathStr(path) ==
    IF Len(path) = 1 THEN path[1] ELSE path[1] \o "/" \o PathStr(Tail(path))

\* the Image nodes of the exported document
ImageNodes ==
    IF doc = NoElem \/ Find(doc, "Libraries") = NoElem THEN <<>>
    ELSE FindAll(Find(Find(doc, "Libraries"), "Images"), "Image")

\* the value of the filepath record of a node's Properties
FilepathRecords(node) ==
    SelectSeq(FindAll(Find(node, "Properties"), "Prop"), LAMBDA e : e.a.name = "filepath")

\* C18: in every exported Image node whose file was written to the textures
\* directory, the filepath record of the Properties has the value of the
\* node's filepath attribute.
C18_ImagePathAgreement ==
    ipc = "export_scenes" =>
        \A i \in 1..Len(ImageNodes) :
            ImageNodes[i].a.filepath # NoPath =>
                /\ FilepathRecords(ImageNodes[i]) # <<>>
                /\ \A k \in 1..Len(FilepathRecords(ImageNodes[i])) :
                      FilepathRecords(ImageNodes[i])[k].a.value
                          = <<PathStr(ImageNodes[i].a.filepath)>>

\* C19: no entity is looked up by name before every entity and data block
\* of the document has been instantiated: at the first lookup the registry
\* holds all the entities it holds when Phase 1 is over.
C19_NoLookupBeforeInserted ==
    (PhaseOneDone /\ looked # -1) => looked = Size(bpy)

\* C20: every Deferred Link is queued during Phase 1 and consumed by
\* resolve_links at most once: once resolve_links has started, no step of
\* the run appends a Deferred Link to the queue.
C20_LinkLifeCycle ==
    [][(ipc \in {"links", "poses", "actions"}) => (DEFERRED_LINKS' = DEFERRED_LINKS)]_vars

\* the Prop records of the HBone elements named name in the Pose of the
\* Object elements that are instances of the skeleton named arm
PoseRecords(arm, name) ==
    LET objs == SelectSeq(Iter(doc, "Object"), LAMBDA o : o.a.data_name = arm)
        hbones(o) == IF Find(o, "Pose") = NoElem THEN <<>>
                     ELSE SelectSeq(FindAll(Find(o, "Pose"), "HBone"),
                                    LAMBDA e : e.a.name = name)
        props(e) == IF Find(e, "Properties") = NoElem THEN <<>>
                    ELSE FindAll(Find(e, "Properties"), "Prop")
    IN  UNION {UNION {{props(hbones(objs[i])[j])[k] : k \in 1..Len(props(hbones(objs[i])[j]))} :
                         j \in 1..Len(hbones(objs[i]))} :
                  i \in 1..Len(objs)}

\* the transform records of a joint
JointProps == {"location", "rotation_euler", "rotation_quaternion", "scale"}

\* C21: by the end of the run every Prop record of an HBone that matches a
\* joint of a skeleton instance, its location, rotation and scale records
\* included, has been assigned to the joint.
C21_PoseApplied ==
    ipc = "done" =>
        \A i \in 1..Len(bpy.posebones) :
            \A prop \in PoseRecords(Ent(bpy, Ent(bpy, bpy.posebones[i].data).data).name,
                                    bpy.posebones[i].name) :
                prop.a.name \in JointProps =>
                    bpy.posebones[i].attrs[prop.a.name]
                        = parse_typed_value(prop.a.value, prop.a.type,
                                            GetAttr(prop, "structure_type", ""))

\* C22: when importFromXML has finished Phase 2 and the binding of poses
\* and actions, the Deferred Link queue, the Hierarchy Record map and the
\* deferred pose and action queues hold no entry of the run.
C22_StateDiscarded ==
    ipc = "done" =>
        /\ DOMAIN HIERARCHY_MAP = {}
        /\ Len(DEFERRED_LINKS) = 0
        /\ Len(DEFERRED_POSES) = 0
        /\ Len(DEFERRED_ACTIONS) = 0

\* the place of a kind in the order "images, meshes, materials, lights,
\* cameras, skeletons, animation clips, instances"
StatedRank(kind) ==
    CASE kind = "Image" -> 1 [] kind = "Mesh" -> 2 [] kind = "Material" -> 3
      [] kind = "Light" -> 4 [] kind = "Camera" -> 5 [] kind = "Armature" -> 6
      [] kind = "Action" -> 7 [] OTHER -> 8

DeclaredNames(tag, child) ==
    IF Find(doc, "Libraries") = NoElem THEN <<>>
    ELSE [i \in 1..Len(ListOf(Find(doc, "Libraries"), tag, child)) |->
             ListOf(Find(doc, "Libraries"), tag, child)[i].a.name]

\* the instance that was made together with a skeleton
MadeWithSkeleton(h) ==
    /\ h[1] = "Object"
    /\ \E arm \in DOMAIN HIERARCHY_MAP :
          arm[1] = "Armature" /\ HIERARCHY_MAP[arm].object = h

\* the place of an entity in the order "images, materials, meshes, lights,
\* cameras, skeletons, animation clips, instances": a material that no
\* Material element declares is made with the mesh whose slot names it, the
\* instance of a skeleton with the skeleton
GroupRank(h) ==
    CASE h[1] = "Image" -> 1
      [] h[1] = "Material" ->
             IF \E i \in 1..Len(DeclaredNames("Materials", "Material")) :
                    DeclaredNames("Materials", "Material")[i] = Ent(bpy, h).name
             THEN 2 ELSE 3
      [] h[1] = "Mesh" -> 3 [] h[1] = "Light" -> 4 [] h[1] = "Camera" -> 5
      [] h[1] = "Armature" -> 6
      [] h[1] = "Action" -> 7
      [] OTHER -> IF MadeWithSkeleton(h) THEN 6 ELSE 8

\* the first entities of a kind bear the names of the elements of the list,
\* in document order
InDocumentOrder(kind, tag, child) ==
    /\ Len(bpy[CollOf(kind)]) >= Len(DeclaredNames(tag, child))
    /\ \A i \in 1..Len(DeclaredNames(tag, child)) :
          bpy[CollOf(kind)][i].name = DeclaredNames(tag, child)[i]

\* the entities were made in the order images, materials, meshes, lights,
\* cameras, skeletons, animation clips, instances of the scene trees, each
\* list in document order
SectionOrder ==
    /\ \A k \in 2..Len(bpy.created) :
          GroupRank(bpy.created[k - 1]) <= GroupRank(bpy.created[k])
    /\ InDocumentOrder("Image", "Images", "Image")
    /\ InDocumentOrder("Material", "Materials", "Material")
    /\ InDocumentOrder("Mesh", "Meshes", "Mesh")
    /\ InDocumentOrder("Armature", "Armatures", "ArmatureData")
    /\ InDocumentOrder("Action", "Actions", "Action")

StatedKinds == <<"Object", "Mesh", "Material", "Action", "Armature", "Camera", "Light", "Image">>

\* an entity of the kind bears the name
HasNamed(kind, name) ==
    \E i \in 1..Len(bpy[CollOf(kind)]) : bpy[CollOf(kind)][i].name = name

\* the entity of the first kind, in that order, that has the name
FirstNamed(name) ==
    IF \E k \in 1..Len(StatedKinds) : HasNamed(StatedKinds[k], name)
    THEN LET k == CHOOSE k \in 1..Len(StatedKinds) :
                      /\ HasNamed(StatedKinds[k], name)
                      /\ \A j \in 1..(k - 1) : ~HasNamed(StatedKinds[j], name)
         IN  H(StatedKinds[k],
               CHOOSE i \in 1..Len(bpy[CollOf(StatedKinds[k])]) :
                   bpy[CollOf(StatedKinds[k])][i].name = name)
    ELSE NoneH

\* the name is borne by entities of two kinds at least
SharedName(name) ==
    \E j, k \in 1..Len(StatedKinds) :
        j < k /\ HasNamed(StatedKinds[j], name) /\ HasNamed(StatedKinds[k], name)

\* the Deferred Links of the same owner and property as link i
SameSlot(i) ==
    {j \in 1..Len(DEFERRED_LINKS) :
        /\ DEFERRED_LINKS[j][1] = DEFERRED_LINKS[i][1]
        /\ DEFERRED_LINKS[j][2] = DEFERRED_LINKS[i][2]}

\* C24: resolve_links assigns to the owner's property the entity of the
\* first kind that has the target name, in the order objects, meshes,
\* materials, actions, skeletons, cameras, lights, images, and never an
\* entity of a later kind: after the step the property holds that entity
\* when the property takes it and is left as it was when it does not.
C24_KindPriority ==
    [][(ipc = "links" /\ ipc' = "poses") =>
          \A i \in 1..Len(DEFERRED_LINKS) :
              (DEFERRED_LINKS[i][2] \in AttrNames /\ SameSlot(i) = {i}) =>
                  Ent(bpy', DEFERRED_LINKS[i][1]).attrs[DEFERRED_LINKS[i][2]] =
                      IF /\ FirstNamed(TextStr(DEFERRED_LINKS[i][3][2])) # NoneH
                         /\ Settable(DEFERRED_LINKS[i][1][1], DEFERRED_LINKS[i][2],
                                     FirstNamed(TextStr(DEFERRED_LINKS[i][3][2])))
                      THEN FirstNamed(TextStr(DEFERRED_LINKS[i][3][2]))
                      ELSE Ent(bpy, DEFERRED_LINKS[i][1]).attrs[DEFERRED_LINKS[i][2]]]_vars

\* resolve_links has run on a link whose target name an instance and a
\* skeleton bear and on one whose target name an instance and a material
\* bear: the first was given the instance, the second was left unset
C24_Witness ==
    /\ ipc = "poses"
    /\ \E i, j \in 1..Len(DEFERRED_LINKS) :
          /\ DEFERRED_LINKS[i][2] = "object"
          /\ DEFERRED_LINKS[i][3] = PyStr(<<"Rig">>)
          /\ SharedName("Rig")
          /\ Ent(bpy, DEFERRED_LINKS[i][1]).attrs.object = FirstNamed("Rig")
          /\ FirstNamed("Rig")[1] = "Object"
          /\ DEFERRED_LINKS[j][2] = "active_material"
          /\ DEFERRED_LINKS[j][3] = PyStr(<<"Mat">>)
          /\ SharedName("Mat")
          /\ Ent(bpy, DEFERRED_LINKS[j][1]).attrs.active_material = Unset

\* the children of the material element with the tag
Graphs(tag) == SelectSeq(doc.ch[1].ch, LAMBDA e : e.tag = tag)

\* the NodeGraph element holds one Node per node of the tree, in the order
\* of the tree and under its name, then one Link per link of the tree,
\* between the nodes and sockets of the link
FullGraphOf(ng, tree) ==
    /\ Len(ng.ch) = Len(tree.nodes) + Len(tree.links)
    /\ \A n \in 1..Len(tree.nodes) :
          ng.ch[n].tag = "Node" /\ ng.ch[n].a.name = tree.nodes[n].name
    /\ \A l \in 1..Len(tree.links) :
          /\ ng.ch[Len(tree.nodes) + l].tag = "Link"
          /\ ng.ch[Len(tree.nodes) + l].a.from_node = tree.nodes[tree.links[l].from].name
          /\ ng.ch[Len(tree.nodes) + l].a.to_node = tree.nodes[tree.links[l].to].name
          /\ ng.ch[Len(tree.nodes) + l].a.from_socket = tree.links[l].from_socket
          /\ ng.ch[Len(tree.nodes) + l].a.to_socket = tree.links[l].to_socket

\* C25: for a material with a node tree a full NodeGraph, one Node per
\* graph node and one Link per graph link, is written exactly when the tree
\* has more than two nodes; with two nodes or fewer the ShaderGraph summary
\* is all that is written of the tree.
C25_GraphThreshold ==
    (ipc = "exported" /\ bpy.materials[1].node_tree.present) =>
        /\ Len(Graphs("ShaderGraph")) = 1
        /\ IF Len(bpy.materials[1].node_tree.nodes) > 2
           THEN /\ Len(Graphs("NodeGraph")) = 1
                /\ FullGraphOf(Graphs("NodeGraph")[1], bpy.materials[1].node_tree)
           ELSE /\ Len(Graphs("NodeGraph")) = 0
                /\ \A i \in 1..Len(doc.ch[1].ch) :
                      doc.ch[1].ch[i].tag \in {"Properties", "ShaderGraph"}

\* a tree of two linked nodes was exported with the summary alone, the
\* summary naming the image that feeds the base colour
C25_WitnessTwo ==
    /\ ipc = "exported"
    /\ bpy.materials[1].node_tree.present
    /\ Len(bpy.materials[1].node_tree.nodes) = 2
    /\ Len(bpy.materials[1].node_tree.links) >= 1
    /\ Len(Graphs("NodeGraph")) = 0
    /\ Len(Graphs("ShaderGraph")) = 1
    /\ Graphs("ShaderGraph")[1].a.color_image = "Tex"

\* a tree of three nodes and two links at least was exported with both
C25_Witness ==
    /\ ipc = "exported"
    /\ bpy.materials[1].node_tree.present
    /\ Len(bpy.materials[1].node_tree.nodes) = 3
    /\ Len(bpy.materials[1].node_tree.links) >= 2
    /\ Len(Graphs("NodeGraph")) = 1
    /\ Len(Graphs("NodeGraph")[1].ch) >= 5
    /\ Len(Graphs("ShaderGraph")) = 1

\* the places of the steps of a sort
StepsOf(what) == {i \in 1..Len(bpy.steps) : bpy.steps[i][1] = what}

\* every step of the first sort is before every step of the second
AllBefore(first, second) ==
    \A i \in StepsOf(first), j \in StepsOf(second) : i < j

====
